---- MODULE Spec2Model ----
(***************************************************************************)
(* Document processing lifecycle of the tax document processor.            *)
(*                                                                         *)
(* The persisted store (documents, w2_data, form_1099_int, form_1099_div)  *)
(* and the four pipeline entry points that write to it:                    *)
(*   batch   cli.process                              (src/cli.py)         *)
(*   auto    TaxAssistant._auto_process_documents     (tax_assistant.py)   *)
(*   watch   TaxAssistant._process_new_file           (tax_assistant.py)   *)
(*   manual  TaxAssistant._handle_process_file        (tax_assistant.py)   *)
(* Every committed store write is one step.  Money is in cents.  A Python  *)
(* None is the empty sequence << >>, a present value v is << v >>.          *)
(***************************************************************************)
EXTENDS Integers, Sequences, FiniteSets, TLC

\* ------------------------------------------------------------------ bounds
MaxDocs == 3
MaxRuns == 2
MaxMatched == 3

\* ------------------------------------------------------- program constants
SS_WAGE_LIMIT_2024 == 16860000
SS_TAX_RATE_PER_MILLE == 62
MEDICARE_TAX_RATE_PER_10000 == 145

\* --------------------------------------------------------------- universe
\* Files of the raw-documents directory, in the order list_documents yields
\* them.  "a.pdf" and "b.pdf" hold the same bytes; "c.png" is not a PDF.
Files == <<"a.pdf", "b.pdf", "c.png">>
FileSet == {Files[i] : i \in 1..Len(Files)}
Years == {2023, 2024}
\* TaxAssistant.tax_year: the year the assistant session was opened for.
tax_year == 2024
\* The interactive (main) thread and the file watcher's observer thread.
Threads == {"main", "observer"}
\* Entry points invoked one after the other run on the main thread.
Sequential == {"main"}

None == << >>
Some(v) == << v >>

\* get_file_hash: the digest of the file's bytes (equal bytes, equal digest).
get_file_hash(f) ==
    CASE f = "a.pdf" -> "h1"
      [] f = "b.pdf" -> "h1"
      [] OTHER -> "h2"

\* file_path.suffix.lower() == ".pdf"
IsPdf(f) == f \in {"a.pdf", "b.pdf"}

\* ProcessingStatus
PENDING == "pending"
PROCESSING == "processing"
OCR_COMPLETE == "ocr_complete"
EXTRACTED == "extracted"
VALIDATED == "validated"
ERROR == "error"

\* DocumentType (the types the pipeline distinguishes)
W2 == "W2"
FORM_1099_INT == "1099_INT"
FORM_1099_DIV == "1099_DIV"
FORM_1099_B == "1099_B"
FORM_1099_NEC == "1099_NEC"
FORM_1099_G == "1099_G"
FORM_1099_R == "1099_R"
FORM_1098 == "1098"
OTHER_TYPE == "OTHER"
UNKNOWN == "UNKNOWN"

\* ------------------------------------------------------------------ state
VARIABLES
    documents,      \* table documents: row id = index
    w2_data,        \* table w2_data (rows in insertion order)
    form_1099_int,  \* table form_1099_int
    form_1099_div,  \* table form_1099_div
    run,            \* per thread: the entry point it executes and its locals
    runs,           \* number of entry-point invocations so far
    session,        \* assistant session: thread owning the sqlite3 connection,
                    \* paths the watcher's handler has already reported
    call            \* a single call of a pure function: its input and result

vars == <<documents, w2_data, form_1099_int, form_1099_div, run, runs,
          session, call>>
store == <<documents, w2_data, form_1099_int, form_1099_div>>

\* ----------------------------------------------------------- store (SQLite)
\* The lookup with the hash compared against the wrong column.
document_exists_by_path(docs, tax_year_id, file_hash) ==
    \E i \in 1..Len(docs) :
        docs[i].tax_year_id = tax_year_id /\ docs[i].file_path = file_hash

\* SELECT COUNT(1) FROM documents WHERE tax_year_id = ? AND file_hash = ?
document_exists_by_hash(docs, tax_year_id, file_hash) ==
    \E i \in 1..Len(docs) :
        docs[i].tax_year_id = tax_year_id /\ docs[i].file_hash = file_hash

\* INSERT INTO documents: status defaults to 'pending', error_message NULL.
create_document(docs, tax_year_id, document_type, file_path, file_hash) ==
    Append(docs, [tax_year_id |-> tax_year_id,
                  document_type |-> document_type,
                  file_path |-> file_path,
                  file_hash |-> file_hash,
                  processing_status |-> PENDING,
                  error_message |-> None])

\* The OCR text stored with the status written as 'pending'.
update_document_ocr_text_pending(docs, id) ==
    [docs EXCEPT ![id].processing_status = PENDING]

\* UPDATE documents SET ocr_text = ?, processing_status = 'ocr_complete'
update_document_ocr_text(docs, id) ==
    [docs EXCEPT ![id].processing_status = OCR_COMPLETE]

\* UPDATE documents SET processing_status = ?, error_message = ?
update_document_status(docs, id, status, error_message) ==
    [docs EXCEPT ![id].processing_status = status,
                 ![id].error_message = error_message]

\* SQLiteHandler has no update_document_type; its three callers expect it to
\* persist the classifier's type on the row.
update_document_type(docs, id, doc_type) ==
    [docs EXCEPT ![id].document_type = doc_type]

\* save_*_data: INSERT the row, then update_document_status(EXTRACTED).
SaveStatus(docs, id) == update_document_status(docs, id, EXTRACTED, None)

\* -------------------------------------------------------------- validator
Abs(x) == IF x < 0 THEN 0 - x ELSE x
Min(x, y) == IF x < y THEN x ELSE y
Warn(ws) == [i \in 1..Len(ws) |-> <<"WARNING:", ws[i]>>]

\* re.match(r"^\d{3}-\d{2}-\d{4}$", ssn) and re.match(r"^\d{2}-\d{7}$", ein) on
\* the identifiers the model uses.
\* A tax id is a string, written as the sequence of its characters.
Digit == {"0", "1", "2", "3", "4", "5", "6", "7", "8", "9"}
IsDigit(c) == c \in Digit
NineDigits == <<"1", "2", "3", "4", "5", "6", "7", "8", "9">>
EinForm == <<"1", "2", "-", "3", "4", "5", "6", "7", "8", "9">>
SsnForm == <<"1", "2", "3", "-", "4", "5", "-", "6", "7", "8", "9">>
TaxIds ==
    { NineDigits, EinForm, SsnForm,
      <<"1", "2", "3", " ", "4", "5", " ", "6", "7", "8", "9">>,
      <<"1", "2", "3", "4", "5", "6", "7">>,
      <<"1", "2", "3", "4", "5", "6", "7", "8">>,
      <<"1", "2", "3", "4", "5", "6", "7", "8", "9", "0">>,
      <<"N", "/", "A">>,
      << >> }
MatchesSSN(v) ==
    /\ Len(v) = 11
    /\ \A i \in 1..11 : IF i \in {4, 7} THEN v[i] = "-" ELSE IsDigit(v[i])
MatchesEIN(v) ==
    /\ Len(v) = 10
    /\ \A i \in 1..10 : IF i = 3 THEN v[i] = "-" ELSE IsDigit(v[i])

\* "".join(c for c in v if c.isdigit())
DigitsOf(v) == SelectSeq(v, IsDigit)

\* W2Data.format_tax_id, the mode="before" validator of employer_ein and
\* employee_ssn: v is None (<< >>) or a string (<< v >>).
format_tax_id(v) ==
    IF v = None THEN None
    ELSE LET digits == DigitsOf(v[1]) IN
         IF Len(digits) = 9
         THEN Some(SubSeq(digits, 1, 2) \o <<"-">> \o SubSeq(digits, 3, 9))
         ELSE IF Len(digits) = 7
         THEN Some(SubSeq(digits, 1, 2) \o <<"-">> \o SubSeq(digits, 3, 7))
         ELSE v

\* W2Data(employer_ein=..., employee_ssn=...): format_tax_id runs first, then
\* the pattern of each field; a mismatch raises ValidationError.
NewW2Data(employer_ein, employee_ssn) ==
    LET ein == format_tax_id(employer_ein)
        ssn == format_tax_id(employee_ssn) IN
    IF /\ ein # None => MatchesEIN(ein[1])
       /\ ssn # None => MatchesSSN(ssn[1])
    THEN [error |-> FALSE, employer_ein |-> ein, employee_ssn |-> ssn]
    ELSE [error |-> TRUE, employer_ein |-> None, employee_ssn |-> None]

\* LLMExtractor.extract_w2, lines 271-289: `if ein:` / `if ssn:` skip None
\* and the empty string.
llm_format_ein(ein) ==
    IF ein = None \/ ein[1] = << >> THEN ein
    ELSE LET ein_digits == DigitsOf(ein[1]) IN
         IF Len(ein_digits) = 9
         THEN Some(SubSeq(ein_digits, 1, 2) \o <<"-">> \o SubSeq(ein_digits, 3, 9))
         ELSE None
llm_format_ssn(ssn) ==
    IF ssn = None \/ ssn[1] = << >> THEN ssn
    ELSE LET ssn_digits == DigitsOf(ssn[1]) IN
         IF Len(ssn_digits) = 9
         THEN Some(SubSeq(ssn_digits, 1, 3) \o <<"-">> \o SubSeq(ssn_digits, 4, 5)
                   \o <<"-">> \o SubSeq(ssn_digits, 6, 9))
         ELSE None

\* An extracted numeric string: whether it has grouping commas, whether what
\* is left without them is a number Decimal() accepts, and that number in
\* thousandths of a dollar.
NumericStrings ==
    [ commas : BOOLEAN, malformed : BOOLEAN,
      mills : {0, 10, 1234567, 58414000, 58414004, 58414005} ]

\* str(val).replace(',', '')
strip_commas(val) == [val EXCEPT !.commas = FALSE]

\* Decimal(text): InvalidOperation for anything that is not a number, a
\* string with commas included.
DecimalOf(val) ==
    IF val.commas \/ val.malformed
    THEN [error |-> TRUE, mills |-> 0]
    ELSE [error |-> FALSE, mills |-> val.mills]

\* Field(..., decimal_places=2): a value with more than two fraction digits
\* is refused (ValidationError), any other is kept as it is.
decimal_places_2(d) ==
    IF d.error \/ d.mills % 10 # 0
    THEN [error |-> TRUE, mills |-> 0]
    ELSE d

\* One monetary field of a record, from the extracted string to the stored
\* value: to_decimal(val) of cli.process and the _extract_*_via_pdfplumber_tax
\* helpers lets the exception out; LLMExtractor.extract_w2 builds
\* Decimal(str(val)) inside its try block and returns None for the record.
store_decimal(backend, val) ==
    LET d == decimal_places_2(IF backend = "llm" THEN DecimalOf(val)
                              ELSE DecimalOf(strip_commas(val))) IN
    IF d.error
    THEN [raised |-> backend # "llm", record |-> backend # "llm", stored |-> None]
    ELSE [raised |-> FALSE, record |-> TRUE, stored |-> Some(d.mills)]

\* The W-2 record the two builders give for the ids they are handed:
\* LLMExtractor.extract_w2 returns None when W2Data(...) raises (332-334),
\* cli.process and _extract_w2_via_pdfplumber_tax let the exception out.
build_w2(backend, employer_ein, employee_ssn) ==
    LET data == IF backend = "llm"
                THEN NewW2Data(llm_format_ein(employer_ein),
                               llm_format_ssn(employee_ssn))
                ELSE NewW2Data(employer_ein, employee_ssn) IN
    IF data.error
    THEN [raised |-> backend # "llm", record |-> None]
    ELSE [raised |-> FALSE,
          record |-> Some([employer_ein |-> data.employer_ein,
                           employee_ssn |-> data.employee_ssn])]

\* validate_1099_int with is_valid taken from the whole message list.
validate_1099_int_strict(data) ==
    LET errors ==
            (IF data.payer_name = "" THEN <<"Missing payer name">> ELSE << >>)
         \o (IF data.interest_income < 0
                THEN <<"Interest income cannot be negative">> ELSE << >>)
        warnings ==
            (IF data.interest_income > 100000000
                THEN <<"Interest income is unusually high">> ELSE << >>)
         \o (IF data.tax_exempt_interest # None /\ data.tax_exempt_interest[1] > 0
                THEN <<"Tax-exempt interest detected">> ELSE << >>)
    IN  [is_valid |-> Len(errors) + Len(warnings) = 0,
         errors |-> errors,
         warnings |-> warnings,
         messages |-> [i \in 1..Len(errors) |-> <<errors[i]>>] \o Warn(warnings)]

\* DataValidator.validate_w2: (is_valid, errors + warnings prefixed WARNING:).
validate_w2(data) ==
    LET errors ==
            (IF data.employer_name = "" THEN <<"Missing employer name">> ELSE << >>)
         \o (IF data.employee_name = "" THEN <<"Missing employee name">> ELSE << >>)
         \o (IF data.wages_tips_compensation < 0
                THEN <<"Wages cannot be negative">> ELSE << >>)
        expected_ss_tax ==
            Min(data.social_security_wages * SS_TAX_RATE_PER_MILLE,
                SS_WAGE_LIMIT_2024 * SS_TAX_RATE_PER_MILLE)
        warnings ==
            (IF /\ data.social_security_wages # 0
                /\ data.social_security_tax_withheld # 0
                /\ Abs(expected_ss_tax - data.social_security_tax_withheld * 1000)
                       > 100 * 1000
                THEN <<"Social Security tax doesn't match expected">> ELSE << >>)
         \o (IF /\ data.medicare_wages # 0
                /\ data.medicare_tax_withheld # 0
                /\ Abs(data.medicare_wages * MEDICARE_TAX_RATE_PER_10000
                       - data.medicare_tax_withheld * 10000) > 100 * 10000
                THEN <<"Medicare tax doesn't match expected">> ELSE << >>)
         \o (IF data.employee_ssn # None /\ ~MatchesSSN(data.employee_ssn[1])
                THEN <<"SSN format may be incorrect">> ELSE << >>)
         \o (IF data.employer_ein # None /\ ~MatchesEIN(data.employer_ein[1])
                THEN <<"EIN format may be incorrect">> ELSE << >>)
    IN  [is_valid |-> Len(errors) = 0,
         errors |-> errors,
         warnings |-> warnings,
         messages |-> [i \in 1..Len(errors) |-> <<errors[i]>>] \o Warn(warnings)]

\* DataValidator.validate_1099_int
validate_1099_int(data) ==
    LET errors ==
            (IF data.payer_name = "" THEN <<"Missing payer name">> ELSE << >>)
         \o (IF data.interest_income < 0
                THEN <<"Interest income cannot be negative">> ELSE << >>)
        warnings ==
            (IF data.interest_income > 100000000
                THEN <<"Interest income is unusually high">> ELSE << >>)
         \o (IF data.tax_exempt_interest # None /\ data.tax_exempt_interest[1] > 0
                THEN <<"Tax-exempt interest detected">> ELSE << >>)
    IN  [is_valid |-> Len(errors) = 0,
         errors |-> errors,
         warnings |-> warnings,
         messages |-> [i \in 1..Len(errors) |-> <<errors[i]>>] \o Warn(warnings)]

\* DataValidator.validate_1099_div
validate_1099_div(data) ==
    LET total == data.total_ordinary_dividends
        errors ==
            (IF data.payer_name = "" THEN <<"Missing payer name">> ELSE << >>)
         \o (IF total < 0 THEN <<"Dividends cannot be negative">> ELSE << >>)
         \o (IF /\ data.qualified_dividends # None
                /\ data.qualified_dividends[1] # 0
                /\ total # 0
                /\ data.qualified_dividends[1] > total
                THEN <<"Qualified dividends cannot exceed total ordinary dividends">>
                ELSE << >>)
        warnings ==
            (IF /\ data.total_capital_gain # None
                /\ data.total_capital_gain[1] # 0
                /\ total # 0
                /\ data.total_capital_gain[1] > total
                THEN <<"Capital gain distributions exceed total ordinary dividends">>
                ELSE << >>)
         \o (IF data.foreign_tax_paid # None /\ data.foreign_tax_paid[1] > 0
                THEN <<"Foreign tax paid detected">> ELSE << >>)
    IN  [is_valid |-> Len(errors) = 0,
         errors |-> errors,
         warnings |-> warnings,
         messages |-> [i \in 1..Len(errors) |-> <<errors[i]>>] \o Warn(warnings)]

\* ------------------------------------------------- extraction (environment)
\* What extract_w2_from_file can hand back as a dictionary: names are absent
\* ("") or present, amounts absent (None) or present, in cents.
W2Good ==
    [employer_name |-> "ACME", employee_name |-> "JO DOE",
     wages_tips_compensation |-> Some(5841400),
     federal_income_tax_withheld |-> Some(700000),
     social_security_wages |-> Some(5841400),
     social_security_tax_withheld |-> Some(362100),
     medicare_wages |-> Some(5841400),
     medicare_tax_withheld |-> Some(84700)]
W2Extractions ==
    { W2Good,
      [W2Good EXCEPT !.social_security_tax_withheld = Some(300000)],
      [W2Good EXCEPT !.employer_name = ""],
      [W2Good EXCEPT !.social_security_wages = None,
                     !.social_security_tax_withheld = None],
      [W2Good EXCEPT !.wages_tips_compensation = None] }

IntGood ==
    [payer_name |-> "BANK", interest_income |-> Some(12345),
     tax_exempt_interest |-> None]
IntExtractions ==
    { IntGood,
      [IntGood EXCEPT !.interest_income = Some(0 - 12345)],
      [IntGood EXCEPT !.interest_income = None] }

DivGood ==
    [payer_name |-> "FUND", total_ordinary_dividends |-> Some(10000),
     qualified_dividends |-> Some(4000), foreign_tax_paid |-> None]
DivExtractions ==
    { DivGood,
      [DivGood EXCEPT !.qualified_dividends = Some(20000)],
      [DivGood EXCEPT !.total_ordinary_dividends = None] }

\* to_decimal(val, default='0'): None becomes Decimal('0').
to_decimal(val) == IF val = None THEN 0 ELSE val[1]

\* W2Data(...) as built by cli.process and _extract_w2_via_pdfplumber_tax;
\* extracted.get('employer_ein') and extracted.get('employee_ssn') are None
\* for the dictionaries above.
MakeW2Data(document_id, extracted) ==
    [document_id |-> document_id,
     employer_ein |-> None,
     employer_name |-> extracted.employer_name,
     employee_name |-> extracted.employee_name,
     employee_ssn |-> None,
     wages_tips_compensation |-> to_decimal(extracted.wages_tips_compensation),
     federal_income_tax_withheld |->
         to_decimal(extracted.federal_income_tax_withheld),
     social_security_wages |-> to_decimal(extracted.social_security_wages),
     social_security_tax_withheld |->
         to_decimal(extracted.social_security_tax_withheld),
     medicare_wages |-> to_decimal(extracted.medicare_wages),
     medicare_tax_withheld |-> to_decimal(extracted.medicare_tax_withheld),
     raw_data |-> extracted]

\* Form1099INT(...) as built by _extract_1099_int_via_pdfplumber_tax: the
\* optional amounts go through to_decimal too.
MakeForm1099INT(document_id, extracted) ==
    [document_id |-> document_id,
     payer_name |-> extracted.payer_name,
     interest_income |-> to_decimal(extracted.interest_income),
     tax_exempt_interest |-> Some(to_decimal(extracted.tax_exempt_interest))]

\* Form1099DIV(...) as built by _extract_1099_div_via_pdfplumber_tax.
MakeForm1099DIV(document_id, extracted) ==
    [document_id |-> document_id,
     payer_name |-> IF extracted.payer_name = "" THEN "Unknown Payer"
                    ELSE extracted.payer_name,
     total_ordinary_dividends |-> to_decimal(extracted.total_ordinary_dividends),
     qualified_dividends |-> Some(to_decimal(extracted.qualified_dividends)),
     total_capital_gain |-> None,
     foreign_tax_paid |-> Some(to_decimal(extracted.foreign_tax_paid))]

\* -------------------------------------------------------------- classifier
\* Scores are counted in units of 1/8400, in which every quotient and
\* product _calculate_score forms is a whole number: 1.0 is 8400.
SCORE_ONE == 8400
PATTERN_WEIGHT == 5880
KEYWORD_WEIGHT == 2520
MIN_CONFIDENCE == 2520
FILENAME_OVERRIDE_BELOW == 4200
FILENAME_OVERRIDE_CONFIDENCE == 6720
FILENAME_ONLY_CONFIDENCE == 5040

\* The candidate types in the order of the DOCUMENT_PATTERNS dictionary.
CandidateTypes ==
    <<W2, FORM_1099_INT, FORM_1099_DIV, FORM_1099_B, FORM_1099_NEC,
      FORM_1099_G, FORM_1099_R, FORM_1098>>

\* DOCUMENT_PATTERNS / CONFIDENCE_KEYWORDS: each type's regular expressions
\* and keywords, named by their position in the type's list.
DOCUMENT_PATTERNS ==
    (W2 :> 1..7) @@ (FORM_1099_INT :> 1..6) @@ (FORM_1099_DIV :> 1..6) @@
    (FORM_1099_B :> 1..4) @@ (FORM_1099_NEC :> 1..3) @@ (FORM_1099_G :> 1..4) @@
    (FORM_1099_R :> 1..4) @@ (FORM_1098 :> 1..3)
CONFIDENCE_KEYWORDS ==
    (W2 :> 1..10) @@ (FORM_1099_INT :> 1..8) @@ (FORM_1099_DIV :> 1..7)

\* self.CONFIDENCE_KEYWORDS.get(doc_type, [])
Keywords(doc_type) ==
    IF doc_type \in DOMAIN CONFIDENCE_KEYWORDS
    THEN CONFIDENCE_KEYWORDS[doc_type] ELSE {}

\* A text is what the classifier can tell about it: whether it is empty, only
\* whitespace ("blank") or has words, and which patterns (re.search) and
\* keywords (kw in text_lower) of each type it matches.
NoMatches == [t \in DOMAIN DOCUMENT_PATTERNS |-> {}]
EmptyText == [chars |-> "empty", patterns |-> NoMatches, keywords |-> NoMatches]
BlankText == [chars |-> "blank", patterns |-> NoMatches, keywords |-> NoMatches]
WordsText(patterns, keywords) ==
    [chars |-> "words", patterns |-> patterns, keywords |-> keywords]

\* _calculate_score with the keyword share counted for the keywords that
\* are missing.
calculate_score_missing(text, doc_type) ==
    LET patterns == DOCUMENT_PATTERNS[doc_type]
        pattern_matches == Cardinality(text.patterns[doc_type] \cap patterns)
        keywords == Keywords(doc_type)
        keyword_misses == Cardinality(keywords \ text.keywords[doc_type])
        pattern_part ==
            IF patterns # {}
            THEN (pattern_matches * PATTERN_WEIGHT) \div Cardinality(patterns)
            ELSE 0
        keyword_part ==
            IF keywords # {}
            THEN (keyword_misses * KEYWORD_WEIGHT) \div Cardinality(keywords)
            ELSE 0
    IN  Min(pattern_part + keyword_part, SCORE_ONE)

\* DocumentClassifier._calculate_score
calculate_score(text, doc_type) ==
    LET patterns == DOCUMENT_PATTERNS[doc_type]
        pattern_matches == Cardinality(text.patterns[doc_type] \cap patterns)
        keywords == Keywords(doc_type)
        keyword_matches == Cardinality(text.keywords[doc_type] \cap keywords)
        pattern_part ==
            IF patterns # {}
            THEN (pattern_matches * PATTERN_WEIGHT) \div Cardinality(patterns)
            ELSE 0
        keyword_part ==
            IF keywords # {}
            THEN (keyword_matches * KEYWORD_WEIGHT) \div Cardinality(keywords)
            ELSE 0
    IN  Min(pattern_part + keyword_part, SCORE_ONE)

\* max(scores, key=scores.get): the first type, in dictionary order, whose
\* score no other type exceeds.
BestType(text) ==
    LET n == Len(CandidateTypes)
        score(i) == calculate_score(text, CandidateTypes[i])
        best == CHOOSE i \in 1..n :
                    /\ \A j \in 1..n : score(j) <= score(i)
                    /\ \A j \in 1..(i - 1) : score(j) < score(i)
    IN  CandidateTypes[best]

\* classify with the threshold test `best_score <= 0.3`.
classify_at_most(text) ==
    IF text.chars \in {"empty", "blank"}
    THEN [document_type |-> UNKNOWN, confidence |-> 0]
    ELSE LET best_type == BestType(text)
             best_score == calculate_score(text, best_type)
         IN  IF best_score <= MIN_CONFIDENCE
             THEN [document_type |-> OTHER_TYPE, confidence |-> best_score]
             ELSE [document_type |-> best_type, confidence |-> best_score]

\* classify with `if not text` alone, without the strip().
classify_unstripped(text) ==
    IF text.chars = "empty"
    THEN [document_type |-> UNKNOWN, confidence |-> 0]
    ELSE LET best_type == BestType(text)
             best_score == calculate_score(text, best_type)
         IN  IF best_score < MIN_CONFIDENCE
             THEN [document_type |-> OTHER_TYPE, confidence |-> best_score]
             ELSE [document_type |-> best_type, confidence |-> best_score]

\* DocumentClassifier.classify
classify(text) ==
    IF text.chars \in {"empty", "blank"}
    THEN [document_type |-> UNKNOWN, confidence |-> 0]
    ELSE LET best_type == BestType(text)
             best_score == calculate_score(text, best_type)
         IN  IF best_score < MIN_CONFIDENCE
             THEN [document_type |-> OTHER_TYPE, confidence |-> best_score]
             ELSE [document_type |-> best_type, confidence |-> best_score]

\* File names and what _classify_by_filename's regular expressions make of
\* them ("w2_2024.pdf" has no word boundary after "w2").
FileNames ==
    {"w2.pdf", "w2_2024.pdf", "1099-int.pdf", "1099div.pdf", "1098.pdf",
     "scan001.pdf"}
classify_by_filename(filename) ==
    CASE filename = "w2.pdf" -> W2
      [] filename = "1099-int.pdf" -> FORM_1099_INT
      [] filename = "1099div.pdf" -> FORM_1099_DIV
      [] filename = "1098.pdf" -> FORM_1098
      [] OTHER -> UNKNOWN

\* classify_file with the file name winning whatever the text confidence.
classify_file_name_first(file_path, text) ==
    LET filename_type == classify_by_filename(file_path) IN
    IF text # None /\ text[1].chars # "empty"
    THEN LET r == classify(text[1]) IN
         IF filename_type # UNKNOWN
         THEN [document_type |-> filename_type,
               confidence |-> FILENAME_OVERRIDE_CONFIDENCE]
         ELSE r
    ELSE [document_type |-> filename_type,
          confidence |-> IF filename_type # UNKNOWN
                         THEN FILENAME_ONLY_CONFIDENCE ELSE 0]

\* DocumentClassifier.classify_file(file_path, text): text is None (<< >>) or
\* a string (<< text >>); `if text:` holds for every non-empty string.
classify_file(file_path, text) ==
    LET filename_type == classify_by_filename(file_path) IN
    IF text # None /\ text[1].chars # "empty"
    THEN LET r == classify(text[1]) IN
         IF filename_type # UNKNOWN /\ r.confidence < FILENAME_OVERRIDE_BELOW
         THEN [document_type |-> filename_type,
               confidence |-> FILENAME_OVERRIDE_CONFIDENCE]
         ELSE r
    ELSE [document_type |-> filename_type,
          confidence |-> IF filename_type # UNKNOWN
                         THEN FILENAME_ONLY_CONFIDENCE ELSE 0]

\* Matches(doc_type, p, k): the first p patterns and the first k keywords of
\* one type and nothing of the others.
Matches(doc_type, n) == [t \in DOMAIN DOCUMENT_PATTERNS |->
                            IF t = doc_type THEN 1..n ELSE {}]

\* PDFProcessor.extract_text returns the digital text or "": the texts the
\* pipeline meets are the empty one, a form of each extracted type, a
\* 1099-B and a text that matches nothing.
Texts ==
    { EmptyText,
      WordsText(Matches(W2, 7), Matches(W2, 10)),
      WordsText(Matches(FORM_1099_INT, 6), Matches(FORM_1099_INT, 8)),
      WordsText(Matches(FORM_1099_DIV, 6), Matches(FORM_1099_DIV, 7)),
      WordsText(Matches(FORM_1099_B, 4), NoMatches),
      WordsText(NoMatches, NoMatches) }

\* ------------------------------------------------------- entry-point locals
\* doc = 0 stands for the Python local `doc` being unbound.  outcome, raised
\* and created are history: what extraction and validation gave for the
\* current file ("skipped", "reference", "no_data", "invalid", "saved"), the
\* exceptions raised in this invocation (file, stage, row the file had at
\* that moment) and the rows the invocation inserted.
Idle ==
    [kind |-> "none", pc |-> "idle", year |-> 0, queue |-> << >>,
     cur |-> "", file_hash |-> "", doc |-> 0, text |-> EmptyText,
     doc_type |-> "",
     extraction_success |-> FALSE, exc |-> None, outcome |-> "",
     raised |-> << >>, created |-> {}]

\* No connection opened yet (SQLiteHandler._connection is None), no path
\* reported yet (DocumentFileHandler._processed_paths is empty).
NoThread == "none"
NewSession == [connection |-> NoThread, processed_paths |-> {}]

NoCall == [fn |-> "none"]

Init ==
    /\ documents = << >>
    /\ w2_data = << >>
    /\ form_1099_int = << >>
    /\ form_1099_div = << >>
    /\ run = [t \in Threads |-> Idle]
    /\ runs = 0
    /\ session = NewSession
    /\ call = NoCall

\* str(e) of an exception raised while handling file f.
ExcMessage(f) == <<"exception", f>>

Raise(r, stage) ==
    [r EXCEPT !.pc = "except",
              !.exc = ExcMessage(r.cur),
              !.raised = Append(@, [file |-> r.cur, stage |-> stage,
                                    doc |-> IF stage = "hash" THEN 0 ELSE r.doc])]

\* The statement after the per-file work: the next loop iteration for the two
\* loops, the return for the single-file entry points.
AfterFile(kind) == IF kind \in {"batch", "auto"} THEN "loop" ELSE "done"

\* The locals that are rebound before they are read again are forgotten
\* when the loop moves on; doc is not one of them.
Forget(r, pc) ==
    [r EXCEPT !.pc = pc, !.cur = "", !.file_hash = "", !.text = EmptyText,
              !.doc_type = "", !.extraction_success = FALSE, !.exc = None,
              !.outcome = ""]

\* ------------------------------------------------------------ cli.process
\* input_path is one file or the directory (list_documents).
BatchInputs == {<<Files[i]>> : i \in 1..Len(Files)} \cup {Files}

process_start(t) ==
    /\ run[t].pc = "idle"
    /\ runs < MaxRuns
    /\ \E year \in Years, files \in BatchInputs :
          /\ Len(documents) + Len(files) <= MaxDocs
          /\ run' = [run EXCEPT ![t] =
                [Idle EXCEPT !.kind = "batch", !.pc = "loop",
                             !.year = year, !.queue = files]]
    /\ runs' = runs + 1
    /\ UNCHANGED store
    /\ UNCHANGED <<session, call>>

\* for file_path in files / for file_path in unprocessed_files
LoopNext(t) ==
    /\ run[t].pc = "loop"
    /\ run' = [run EXCEPT ![t] =
          IF run[t].queue = << >>
          THEN Forget(@, "done")
          ELSE [Forget(@, "hash") EXCEPT !.cur = Head(run[t].queue),
                                         !.queue = Tail(run[t].queue)]]
    /\ UNCHANGED <<store, runs>>
    /\ UNCHANGED <<session, call>>

\* file_hash = get_file_hash(path); if db.document_exists_by_hash(...): skip.
\* _auto_process_documents hashes again inside its loop without the lookup.
CheckProcessed(t) ==
    /\ run[t].pc = "hash"
    /\ \/ run' = [run EXCEPT ![t] = Raise(@, "hash")]
       \/ LET h == get_file_hash(run[t].cur) IN
          run' = [run EXCEPT ![t] =
             IF /\ run[t].kind # "auto"
                /\ document_exists_by_hash(documents, run[t].year, h)
             THEN [@ EXCEPT !.pc = AfterFile(run[t].kind), !.outcome = "skipped"]
             ELSE [@ EXCEPT !.pc = "create", !.file_hash = h]]
    /\ UNCHANGED <<store, runs>>
    /\ UNCHANGED <<session, call>>

\* doc = db.create_document(..., DocumentType.UNKNOWN, ...)
CreateDocument(t) ==
    /\ run[t].pc = "create"
    /\ Len(documents) < MaxDocs
    /\ documents' = create_document(documents, run[t].year, UNKNOWN,
                                    run[t].cur, run[t].file_hash)
    /\ run' = [run EXCEPT ![t].pc = "processing",
                          ![t].doc = Len(documents) + 1,
                          ![t].created = @ \cup {Len(documents) + 1}]
    /\ UNCHANGED <<w2_data, form_1099_int, form_1099_div, runs>>
    /\ UNCHANGED <<session, call>>

\* db.update_document_status(doc.id, ProcessingStatus.PROCESSING)
MarkProcessing(t) ==
    /\ run[t].pc = "processing"
    /\ documents' = update_document_status(documents, run[t].doc, PROCESSING, None)
    /\ run' = [run EXCEPT ![t].pc = "ocr"]
    /\ UNCHANGED <<w2_data, form_1099_int, form_1099_div, runs>>
    /\ UNCHANGED <<session, call>>

\* text = pdf_processor.extract_text(path) for a PDF, "" otherwise;
\* db.update_document_ocr_text(doc.id, text)
ExtractText(t) ==
    /\ run[t].pc = "ocr"
    /\ \/ /\ IsPdf(run[t].cur)
          /\ run' = [run EXCEPT ![t] = Raise(@, "ocr")]
          /\ UNCHANGED documents
       \/ \E text \in (IF IsPdf(run[t].cur) THEN Texts ELSE {EmptyText}) :
          /\ documents' = update_document_ocr_text(documents, run[t].doc)
          /\ run' = [run EXCEPT ![t].pc = "classify", ![t].text = text]
    /\ UNCHANGED <<w2_data, form_1099_int, form_1099_div, runs>>
    /\ UNCHANGED <<session, call>>

\* doc_type, confidence = classifier.classify(text); the assistant's entry
\* points then call db.update_document_type(doc.id, doc_type), which raises
\* when the handler does not provide it.
Classify(t) ==
    /\ run[t].pc = "classify"
    /\ \/ /\ run[t].kind # "batch"
          /\ run' = [run EXCEPT ![t] = Raise(@, "type")]
          /\ UNCHANGED documents
       \/ LET dt == classify(run[t].text).document_type IN
          /\ run' = [run EXCEPT ![t].pc = "extract", ![t].doc_type = dt,
                                ![t].extraction_success = FALSE]
          /\ documents' = IF run[t].kind = "batch" THEN documents
                          ELSE update_document_type(documents, run[t].doc, dt)
    /\ UNCHANGED <<w2_data, form_1099_int, form_1099_div, runs>>
    /\ UNCHANGED <<session, call>>

\* cli.process, lines 131-188: only W-2 is extracted; a record that fails
\* validation is printed and not saved.
ExtractBatch(t) ==
    /\ run[t].pc = "extract"
    /\ run[t].kind = "batch"
    /\ LET Skip(outcome) ==
               /\ run' = [run EXCEPT ![t].pc = "final", ![t].outcome = outcome]
               /\ UNCHANGED store
       IN
       IF run[t].doc_type = W2
       THEN \/ /\ run' = [run EXCEPT ![t] = Raise(@, "extract")]
               /\ UNCHANGED store
            \/ Skip("no_data")
            \/ \E extracted \in W2Extractions :
               LET data == MakeW2Data(run[t].doc, extracted) IN
               IF extracted.wages_tips_compensation = None
               THEN Skip("no_data")
               ELSE IF validate_w2(data).is_valid
               THEN /\ run' = [run EXCEPT ![t].pc = "final",
                                          ![t].outcome = "saved"]
                    /\ w2_data' = Append(w2_data, data)
                    /\ documents' = SaveStatus(documents, run[t].doc)
                    /\ UNCHANGED <<form_1099_int, form_1099_div>>
               ELSE Skip("invalid")
       ELSE Skip("reference")
    /\ UNCHANGED runs
    /\ UNCHANGED <<session, call>>

\* cli.process without the status update of line 190.
FinalBatchKeepsStatus(t) ==
    /\ run[t].pc = "final"
    /\ run[t].kind = "batch"
    /\ run' = [run EXCEPT ![t].pc = "loop"]
    /\ UNCHANGED <<store, runs>>
    /\ UNCHANGED <<session, call>>

\* cli.process, line 190
FinalBatch(t) ==
    /\ run[t].pc = "final"
    /\ run[t].kind = "batch"
    /\ documents' = update_document_status(documents, run[t].doc, VALIDATED, None)
    /\ run' = [run EXCEPT ![t].pc = "loop"]
    /\ UNCHANGED <<w2_data, form_1099_int, form_1099_div, runs>>
    /\ UNCHANGED <<session, call>>

\* The handler placed around the loop instead of inside it: the first
\* exception ends the run.
HandlerBatchOutsideLoop(t) ==
    /\ run[t].pc = "except"
    /\ run[t].kind = "batch"
    /\ documents' = IF run[t].doc # 0
                    THEN update_document_status(documents, run[t].doc, ERROR,
                                                run[t].exc)
                    ELSE documents
    /\ run' = [run EXCEPT ![t].pc = "done"]
    /\ UNCHANGED <<w2_data, form_1099_int, form_1099_div, runs>>
    /\ UNCHANGED <<session, call>>

\* cli.process, lines 192-196: except Exception as e: if 'doc' in locals()
HandlerBatch(t) ==
    /\ run[t].pc = "except"
    /\ run[t].kind = "batch"
    /\ documents' = IF run[t].doc # 0
                    THEN update_document_status(documents, run[t].doc, ERROR,
                                                run[t].exc)
                    ELSE documents
    /\ run' = [run EXCEPT ![t].pc = "loop"]
    /\ UNCHANGED <<w2_data, form_1099_int, form_1099_div, runs>>
    /\ UNCHANGED <<session, call>>

\* The entry point returns to its caller.
Return(t) ==
    /\ run[t].pc = "done"
    /\ run' = [run EXCEPT ![t] = Idle]
    /\ UNCHANGED <<store, runs>>
    /\ UNCHANGED <<session, call>>

BatchStep(t) ==
    \/ process_start(t)
    \/ LoopNext(t)
    \/ CheckProcessed(t)
    \/ CreateDocument(t)
    \/ MarkProcessing(t)
    \/ ExtractText(t)
    \/ Classify(t)
    \/ ExtractBatch(t)
    \/ FinalBatch(t)
    \/ HandlerBatch(t)
    \/ Return(t)

NextBatch == \E t \in Sequential : BatchStep(t)

SpecBatch == Init /\ [][NextBatch]_vars

\* A run of cli.process that has begun goes on: the interpreter executes
\* the next statement of the loop whenever there is one.  Nothing obliges
\* the user to start a run.
BatchRunStep(t) ==
    \/ LoopNext(t)
    \/ CheckProcessed(t)
    \/ CreateDocument(t)
    \/ MarkProcessing(t)
    \/ ExtractText(t)
    \/ Classify(t)
    \/ ExtractBatch(t)
    \/ FinalBatch(t)
    \/ HandlerBatch(t)
    \/ Return(t)

SpecBatchFair == SpecBatch /\ \A t \in Sequential : WF_vars(BatchRunStep(t))

\* ------------------------------------------------------------ TaxAssistant
\* Rows of the year whose status is PENDING or ERROR, newest first
\* (list_documents: ORDER BY created_at DESC).
RECURSIVE RetryPaths(_, _, _)
RetryPaths(docs, tax_year_id, i) ==
    IF i = 0 THEN << >>
    ELSE (IF /\ docs[i].tax_year_id = tax_year_id
             /\ docs[i].processing_status \in {PENDING, ERROR}
          THEN <<docs[i].file_path>> ELSE << >>)
         \o RetryPaths(docs, tax_year_id, i - 1)

\* Files whose (year, hash) is not recorded, in directory order.
RECURSIVE NewPaths(_, _, _)
NewPaths(docs, tax_year_id, i) ==
    IF i > Len(Files) THEN << >>
    ELSE (IF document_exists_by_hash(docs, tax_year_id, get_file_hash(Files[i]))
          THEN << >> ELSE <<Files[i]>>)
         \o NewPaths(docs, tax_year_id, i + 1)

\* _auto_process_documents, lines 435-450
UnprocessedFiles(docs, tax_year_id) ==
    NewPaths(docs, tax_year_id, 1) \o RetryPaths(docs, tax_year_id, Len(docs))

\* `for doc in existing_docs` leaves doc bound to the last row listed: the
\* oldest row of the year, or any row sharing its created_at second.
ExistingDocs(docs, tax_year_id) ==
    {i \in 1..Len(docs) : docs[i].tax_year_id = tax_year_id}

\* _auto_process_documents, lines 414-461
auto_process_start(t) ==
    /\ run[t].pc = "idle"
    /\ runs < MaxRuns
    /\ LET year == tax_year
           unprocessed_files == UnprocessedFiles(documents, year)
           existing == ExistingDocs(documents, year) IN
       /\ unprocessed_files # << >>
       /\ Len(documents) + Len(unprocessed_files) <= MaxDocs
       /\ \E d \in (IF existing = {} THEN {0} ELSE existing) :
          run' = [run EXCEPT ![t] =
                [Idle EXCEPT !.kind = "auto", !.pc = "loop", !.year = year,
                             !.queue = unprocessed_files, !.doc = d]]
    /\ runs' = runs + 1
    /\ UNCHANGED store
    /\ UNCHANGED <<session, call>>

\* _process_new_file (the watcher's callback), lines 228-234
process_new_file_start(t) ==
    /\ run[t].pc = "idle"
    /\ runs < MaxRuns
    /\ Len(documents) < MaxDocs
    /\ \E f \in FileSet :
          run' = [run EXCEPT ![t] =
                [Idle EXCEPT !.kind = "watch", !.pc = "hash",
                             !.year = tax_year, !.cur = f]]
    /\ runs' = runs + 1
    /\ UNCHANGED store
    /\ UNCHANGED <<session, call>>

\* _handle_process_file, lines 1217-1231
handle_process_file_start(t) ==
    /\ run[t].pc = "idle"
    /\ runs < MaxRuns
    /\ Len(documents) < MaxDocs
    /\ \E f \in FileSet :
          run' = [run EXCEPT ![t] =
                [Idle EXCEPT !.kind = "manual", !.pc = "hash",
                             !.year = tax_year, !.cur = f]]
    /\ runs' = runs + 1
    /\ UNCHANGED store
    /\ UNCHANGED <<session, call>>

\* The three typed branches shared by _process_new_file (269-295),
\* _auto_process_documents (486-523) and _handle_process_file (1264-1297):
\* W-2 is validated before save_w2_data; 1099-INT and 1099-DIV are saved as
\* extracted.  no_data is the message _auto_process_documents records when
\* the extractor returns nothing usable; invalid the one for a failed W-2.
ExtractAssistant(t) ==
    /\ run[t].pc = "extract"
    /\ run[t].kind \in {"auto", "watch", "manual"}
    /\ LET d == run[t].doc
           auto == run[t].kind = "auto"
           Fail(outcome, msg) ==
               /\ run' = [run EXCEPT ![t].pc = "final", ![t].outcome = outcome]
               /\ documents' = IF auto
                               THEN update_document_status(documents, d, ERROR, msg)
                               ELSE documents
               /\ UNCHANGED <<w2_data, form_1099_int, form_1099_div>>
           Saved == run' = [run EXCEPT ![t].pc = "final",
                                       ![t].extraction_success = TRUE,
                                       ![t].outcome = "saved"]
       IN
       CASE run[t].doc_type = W2 ->
            \/ /\ run' = [run EXCEPT ![t] = Raise(@, "extract")]
               /\ UNCHANGED store
            \/ Fail("no_data", <<"W2 extraction returned no data">>)
            \/ \E extracted \in W2Extractions :
               LET data == MakeW2Data(d, extracted) IN
               IF extracted.wages_tips_compensation = None
               THEN Fail("no_data", <<"W2 extraction returned no data">>)
               ELSE IF validate_w2(data).is_valid
               THEN /\ Saved
                    /\ w2_data' = Append(w2_data, data)
                    /\ documents' = SaveStatus(documents, d)
                    /\ UNCHANGED <<form_1099_int, form_1099_div>>
               ELSE Fail("invalid", <<"W2 validation failed">> \o validate_w2(data).errors)
         [] run[t].doc_type = FORM_1099_INT ->
            \/ /\ run' = [run EXCEPT ![t] = Raise(@, "extract")]
               /\ UNCHANGED store
            \/ Fail("no_data", <<"1099-INT extraction returned no data">>)
            \/ \E extracted \in IntExtractions :
               IF extracted.interest_income = None
               THEN Fail("no_data", <<"1099-INT extraction returned no data">>)
               ELSE /\ Saved
                    /\ form_1099_int' =
                          Append(form_1099_int, MakeForm1099INT(d, extracted))
                    /\ documents' = SaveStatus(documents, d)
                    /\ UNCHANGED <<w2_data, form_1099_div>>
         [] run[t].doc_type = FORM_1099_DIV ->
            \/ /\ run' = [run EXCEPT ![t] = Raise(@, "extract")]
               /\ UNCHANGED store
            \/ Fail("no_data", <<"1099-DIV extraction returned no data">>)
            \/ \E extracted \in DivExtractions :
               IF extracted.total_ordinary_dividends = None
               THEN Fail("no_data", <<"1099-DIV extraction returned no data">>)
               ELSE /\ Saved
                    /\ form_1099_div' =
                          Append(form_1099_div, MakeForm1099DIV(d, extracted))
                    /\ documents' = SaveStatus(documents, d)
                    /\ UNCHANGED <<w2_data, form_1099_int>>
         [] OTHER ->
            /\ run' = [run EXCEPT ![t].pc = "final",
                                  ![t].extraction_success = run[t].kind # "auto",
                                  ![t].outcome = "reference"]
            /\ UNCHANGED store
    /\ UNCHANGED runs
    /\ UNCHANGED <<session, call>>

\* The final status without _auto_process_documents' branch for the types
\* that are not extracted.
FinalAssistantExtractedOnly(t) ==
    /\ run[t].pc = "final"
    /\ run[t].kind \in {"auto", "watch", "manual"}
    /\ documents' =
          IF run[t].extraction_success
          THEN update_document_status(documents, run[t].doc, VALIDATED, None)
          ELSE IF run[t].kind = "auto"
          THEN documents
          ELSE update_document_status(documents, run[t].doc, ERROR, None)
    /\ run' = [run EXCEPT ![t].pc = AfterFile(run[t].kind)]
    /\ UNCHANGED <<w2_data, form_1099_int, form_1099_div, runs>>
    /\ UNCHANGED <<session, call>>

\* _process_new_file 297-300 and _handle_process_file 1300-1303:
\*   VALIDATED if extraction_success else ERROR (no message);
\* _auto_process_documents 525-528: VALIDATED on success or for a type
\* outside the three modelled ones, otherwise the row is left as it is.
FinalAssistant(t) ==
    /\ run[t].pc = "final"
    /\ run[t].kind \in {"auto", "watch", "manual"}
    /\ documents' =
          IF run[t].extraction_success
          THEN update_document_status(documents, run[t].doc, VALIDATED, None)
          ELSE IF run[t].kind = "auto"
          THEN IF run[t].doc_type \notin {W2, FORM_1099_INT, FORM_1099_DIV}
               THEN update_document_status(documents, run[t].doc, VALIDATED, None)
               ELSE documents
          ELSE update_document_status(documents, run[t].doc, ERROR, None)
    /\ run' = [run EXCEPT ![t].pc = AfterFile(run[t].kind)]
    /\ UNCHANGED <<w2_data, form_1099_int, form_1099_div, runs>>
    /\ UNCHANGED <<session, call>>

\* _process_new_file 302-304: the exception is logged and printed.
HandlerWatch(t) ==
    /\ run[t].pc = "except"
    /\ run[t].kind = "watch"
    /\ run' = [run EXCEPT ![t].pc = "done"]
    /\ UNCHANGED <<store, runs>>
    /\ UNCHANGED <<session, call>>

\* _auto_process_documents 530-533 and _handle_process_file 1305-1309:
\*   if doc: db.update_document_status(doc.id, ProcessingStatus.ERROR)
\* With doc unbound the handler itself raises and the entry point is left.
HandlerAssistant(t) ==
    /\ run[t].pc = "except"
    /\ run[t].kind \in {"auto", "manual"}
    /\ IF run[t].doc = 0
       THEN /\ run' = [run EXCEPT ![t].pc = "done"]
            /\ UNCHANGED documents
       ELSE /\ documents' =
                  update_document_status(documents, run[t].doc, ERROR, None)
            /\ run' = [run EXCEPT ![t].pc = AfterFile(run[t].kind)]
    /\ UNCHANGED <<w2_data, form_1099_int, form_1099_div, runs>>
    /\ UNCHANGED <<session, call>>

Step(t) ==
    \/ BatchStep(t)
    \/ auto_process_start(t)
    \/ process_new_file_start(t)
    \/ handle_process_file_start(t)
    \/ ExtractAssistant(t)
    \/ FinalAssistant(t)
    \/ HandlerWatch(t)
    \/ HandlerAssistant(t)

Next == \E t \in Sequential : Step(t)

Spec == Init /\ [][Next]_vars

\* ----------------------------------------------------- extraction backends
\* Strings that the code searches or rewrites are sequences of one-character
\* strings.
\* field_mapping of _normalize_form_fields, in the order of the dict.
field_mapping ==
    <<
       [pattern |-> <<"w", "a", "g", "e", "s">>,
        target |-> <<"w", "a", "g", "e", "s", "_", "t", "i", "p", "s", "_", "c", "o", "m", "p", "e", "n", "s", "a", "t", "i", "o", "n">>],
       [pattern |-> <<"b", "o", "x", "1">>,
        target |-> <<"w", "a", "g", "e", "s", "_", "t", "i", "p", "s", "_", "c", "o", "m", "p", "e", "n", "s", "a", "t", "i", "o", "n">>],
       [pattern |-> <<"b", "o", "x", "_", "1">>,
        target |-> <<"w", "a", "g", "e", "s", "_", "t", "i", "p", "s", "_", "c", "o", "m", "p", "e", "n", "s", "a", "t", "i", "o", "n">>],
       [pattern |-> <<"f", "e", "d", "e", "r", "a", "l">>,
        target |-> <<"f", "e", "d", "e", "r", "a", "l", "_", "i", "n", "c", "o", "m", "e", "_", "t", "a", "x", "_", "w", "i", "t", "h", "h", "e", "l", "d">>],
       [pattern |-> <<"f", "e", "d", "_", "t", "a", "x">>,
        target |-> <<"f", "e", "d", "e", "r", "a", "l", "_", "i", "n", "c", "o", "m", "e", "_", "t", "a", "x", "_", "w", "i", "t", "h", "h", "e", "l", "d">>],
       [pattern |-> <<"b", "o", "x", "2">>,
        target |-> <<"f", "e", "d", "e", "r", "a", "l", "_", "i", "n", "c", "o", "m", "e", "_", "t", "a", "x", "_", "w", "i", "t", "h", "h", "e", "l", "d">>],
       [pattern |-> <<"b", "o", "x", "_", "2">>,
        target |-> <<"f", "e", "d", "e", "r", "a", "l", "_", "i", "n", "c", "o", "m", "e", "_", "t", "a", "x", "_", "w", "i", "t", "h", "h", "e", "l", "d">>],
       [pattern |-> <<"s", "s", "_", "w", "a", "g", "e", "s">>,
        target |-> <<"s", "o", "c", "i", "a", "l", "_", "s", "e", "c", "u", "r", "i", "t", "y", "_", "w", "a", "g", "e", "s">>],
       [pattern |-> <<"s", "o", "c", "i", "a", "l", "_", "s", "e", "c", "u", "r", "i", "t", "y", "_", "w", "a", "g", "e", "s">>,
        target |-> <<"s", "o", "c", "i", "a", "l", "_", "s", "e", "c", "u", "r", "i", "t", "y", "_", "w", "a", "g", "e", "s">>],
       [pattern |-> <<"b", "o", "x", "3">>,
        target |-> <<"s", "o", "c", "i", "a", "l", "_", "s", "e", "c", "u", "r", "i", "t", "y", "_", "w", "a", "g", "e", "s">>],
       [pattern |-> <<"b", "o", "x", "_", "3">>,
        target |-> <<"s", "o", "c", "i", "a", "l", "_", "s", "e", "c", "u", "r", "i", "t", "y", "_", "w", "a", "g", "e", "s">>],
       [pattern |-> <<"s", "s", "_", "t", "a", "x">>,
        target |-> <<"s", "o", "c", "i", "a", "l", "_", "s", "e", "c", "u", "r", "i", "t", "y", "_", "t", "a", "x", "_", "w", "i", "t", "h", "h", "e", "l", "d">>],
       [pattern |-> <<"s", "o", "c", "i", "a", "l", "_", "s", "e", "c", "u", "r", "i", "t", "y", "_", "t", "a", "x">>,
        target |-> <<"s", "o", "c", "i", "a", "l", "_", "s", "e", "c", "u", "r", "i", "t", "y", "_", "t", "a", "x", "_", "w", "i", "t", "h", "h", "e", "l", "d">>],
       [pattern |-> <<"b", "o", "x", "4">>,
        target |-> <<"s", "o", "c", "i", "a", "l", "_", "s", "e", "c", "u", "r", "i", "t", "y", "_", "t", "a", "x", "_", "w", "i", "t", "h", "h", "e", "l", "d">>],
       [pattern |-> <<"b", "o", "x", "_", "4">>,
        target |-> <<"s", "o", "c", "i", "a", "l", "_", "s", "e", "c", "u", "r", "i", "t", "y", "_", "t", "a", "x", "_", "w", "i", "t", "h", "h", "e", "l", "d">>],
       [pattern |-> <<"m", "e", "d", "i", "c", "a", "r", "e", "_", "w", "a", "g", "e", "s">>,
        target |-> <<"m", "e", "d", "i", "c", "a", "r", "e", "_", "w", "a", "g", "e", "s">>],
       [pattern |-> <<"b", "o", "x", "5">>,
        target |-> <<"m", "e", "d", "i", "c", "a", "r", "e", "_", "w", "a", "g", "e", "s">>],
       [pattern |-> <<"b", "o", "x", "_", "5">>,
        target |-> <<"m", "e", "d", "i", "c", "a", "r", "e", "_", "w", "a", "g", "e", "s">>],
       [pattern |-> <<"m", "e", "d", "i", "c", "a", "r", "e", "_", "t", "a", "x">>,
        target |-> <<"m", "e", "d", "i", "c", "a", "r", "e", "_", "t", "a", "x", "_", "w", "i", "t", "h", "h", "e", "l", "d">>],
       [pattern |-> <<"b", "o", "x", "6">>,
        target |-> <<"m", "e", "d", "i", "c", "a", "r", "e", "_", "t", "a", "x", "_", "w", "i", "t", "h", "h", "e", "l", "d">>],
       [pattern |-> <<"b", "o", "x", "_", "6">>,
        target |-> <<"m", "e", "d", "i", "c", "a", "r", "e", "_", "t", "a", "x", "_", "w", "i", "t", "h", "h", "e", "l", "d">>],
       [pattern |-> <<"s", "t", "a", "t", "e", "_", "w", "a", "g", "e", "s">>,
        target |-> <<"s", "t", "a", "t", "e", "_", "w", "a", "g", "e", "s", "_", "t", "i", "p", "s">>],
       [pattern |-> <<"b", "o", "x", "1", "6">>,
        target |-> <<"s", "t", "a", "t", "e", "_", "w", "a", "g", "e", "s", "_", "t", "i", "p", "s">>],
       [pattern |-> <<"b", "o", "x", "_", "1", "6">>,
        target |-> <<"s", "t", "a", "t", "e", "_", "w", "a", "g", "e", "s", "_", "t", "i", "p", "s">>],
       [pattern |-> <<"s", "t", "a", "t", "e", "_", "t", "a", "x">>,
        target |-> <<"s", "t", "a", "t", "e", "_", "i", "n", "c", "o", "m", "e", "_", "t", "a", "x">>],
       [pattern |-> <<"s", "t", "a", "t", "e", "_", "i", "n", "c", "o", "m", "e", "_", "t", "a", "x">>,
        target |-> <<"s", "t", "a", "t", "e", "_", "i", "n", "c", "o", "m", "e", "_", "t", "a", "x">>],
       [pattern |-> <<"b", "o", "x", "1", "7">>,
        target |-> <<"s", "t", "a", "t", "e", "_", "i", "n", "c", "o", "m", "e", "_", "t", "a", "x">>],
       [pattern |-> <<"b", "o", "x", "_", "1", "7">>,
        target |-> <<"s", "t", "a", "t", "e", "_", "i", "n", "c", "o", "m", "e", "_", "t", "a", "x">>],
       [pattern |-> <<"e", "m", "p", "l", "o", "y", "e", "r", "_", "n", "a", "m", "e">>,
        target |-> <<"e", "m", "p", "l", "o", "y", "e", "r", "_", "n", "a", "m", "e">>],
       [pattern |-> <<"e", "m", "p", "l", "o", "y", "e", "r", "_", "e", "i", "n">>,
        target |-> <<"e", "m", "p", "l", "o", "y", "e", "r", "_", "e", "i", "n">>],
       [pattern |-> <<"e", "m", "p", "l", "o", "y", "e", "e", "_", "n", "a", "m", "e">>,
        target |-> <<"e", "m", "p", "l", "o", "y", "e", "e", "_", "n", "a", "m", "e">>],
       [pattern |-> <<"e", "m", "p", "l", "o", "y", "e", "e", "_", "s", "s", "n">>,
        target |-> <<"e", "m", "p", "l", "o", "y", "e", "e", "_", "s", "s", "n">>],
       [pattern |-> <<"e", "m", "p", "l", "o", "y", "e", "r", "_", "a", "d", "d", "r", "e", "s", "s">>,
        target |-> <<"e", "m", "p", "l", "o", "y", "e", "r", "_", "a", "d", "d", "r", "e", "s", "s">>],
       [pattern |-> <<"e", "m", "p", "l", "o", "y", "e", "e", "_", "a", "d", "d", "r", "e", "s", "s">>,
        target |-> <<"e", "m", "p", "l", "o", "y", "e", "e", "_", "a", "d", "d", "r", "e", "s", "s">>],
       [pattern |-> <<"e", "m", "p", "l", "o", "y", "e", "r", "_", "s", "t", "a", "t", "e">>,
        target |-> <<"e", "m", "p", "l", "o", "y", "e", "r", "_", "s", "t", "a", "t", "e">>]
    >>

WAGES_KEY == <<"w", "a", "g", "e", "s", "_", "t", "i", "p", "s", "_", "c", "o", "m", "p", "e", "n", "s", "a", "t", "i", "o", "n">>

FEDERAL_KEY == <<"f", "e", "d", "e", "r", "a", "l", "_", "i", "n", "c", "o", "m", "e", "_", "t", "a", "x", "_", "w", "i", "t", "h", "h", "e", "l", "d">>

\* re.sub(r'[^a-z0-9_]', '_', key.lower()).strip('_')
normalized_key(key) ==
    LET LowerCase ==
        ("A" :> "a") @@
        ("B" :> "b") @@
        ("C" :> "c") @@
        ("D" :> "d") @@
        ("E" :> "e") @@
        ("F" :> "f") @@
        ("G" :> "g") @@
        ("H" :> "h") @@
        ("I" :> "i") @@
        ("J" :> "j") @@
        ("K" :> "k") @@
        ("L" :> "l") @@
        ("M" :> "m") @@
        ("N" :> "n") @@
        ("O" :> "o") @@
        ("P" :> "p") @@
        ("Q" :> "q") @@
        ("R" :> "r") @@
        ("S" :> "s") @@
        ("T" :> "t") @@
        ("U" :> "u") @@
        ("V" :> "v") @@
        ("W" :> "w") @@
        ("X" :> "x") @@
        ("Y" :> "y") @@
        ("Z" :> "z")
        KeyChars ==
            {"a", "b", "c", "d", "e", "f", "g", "h", "i", "j", "k", "l", "m", "n", "o", "p", "q", "r", "s", "t", "u", "v", "w", "x", "y", "z", "0", "1", "2", "3", "4", "5", "6", "7", "8", "9", "_"}
        lower(c) == IF c \in DOMAIN LowerCase THEN LowerCase[c] ELSE c
        subbed == [i \in 1..Len(key) |->
                      IF lower(key[i]) \in KeyChars THEN lower(key[i]) ELSE "_"]
        RECURSIVE lstrip(_)
        lstrip(x) == IF x # << >> /\ Head(x) = "_" THEN lstrip(Tail(x)) ELSE x
        RECURSIVE rstrip(_)
        rstrip(x) ==
            IF x # << >> /\ x[Len(x)] = "_"
            THEN rstrip(SubSeq(x, 1, Len(x) - 1)) ELSE x
    IN  rstrip(lstrip(subbed))

\* pattern in normalized_key
Contains(pattern, s) ==
    \E i \in 1..(Len(s) - Len(pattern) + 1) :
        SubSeq(s, i, i + Len(pattern) - 1) = pattern

\* data[key] = value on a dict that keeps insertion order
set_item(data, key, value) ==
    IF \E k \in 1..Len(data) : data[k].key = key
    THEN [k \in 1..Len(data) |->
             IF data[k].key = key THEN [key |-> key, value |-> value] ELSE data[k]]
    ELSE Append(data, [key |-> key, value |-> value])

get(data, key) ==
    IF \E k \in 1..Len(data) : data[k].key = key
    THEN Some(data[CHOOSE k \in 1..Len(data) : data[k].key = key].value)
    ELSE None

\* str(value).strip()
strip_value(v) == IF v = " " THEN "" ELSE v

\* FlyfieldExtractor._normalize_form_fields
normalize_form_fields(fields) ==
    LET \* the first pattern of the table, in dict order, that occurs in the key
        first_match(key) ==
            LET hits == {k \in 1..Len(field_mapping) :
                            Contains(field_mapping[k].pattern, key)}
            IN  IF hits = {} THEN key
                ELSE field_mapping[CHOOSE k \in hits : \A h \in hits : k <= h].target
        RECURSIVE loop(_, _)
        loop(i, data) ==
            IF i > Len(fields) THEN data
            ELSE IF fields[i].value = None \/ strip_value(fields[i].value[1]) = ""
                 THEN loop(i + 1, data)
                 ELSE loop(i + 1, set_item(data, first_match(normalized_key(fields[i].key)),
                                           strip_value(fields[i].value[1])))
        data == loop(1, << >>)
    IN  IF data # << >> THEN Some(data) ELSE None

\* A page text is described by the anchor lines it holds; each anchor line
\* is followed by a line with two amounts.
PageTexts == [blank : BOOLEAN, box1_2 : BOOLEAN, box3_4 : BOOLEAN]

\* FlyfieldExtractor._parse_w2_text
parse_w2_text(text) ==
    LET d1 == IF text.box1_2
              THEN << [key |-> WAGES_KEY, value |-> "58414.00"],
                      [key |-> FEDERAL_KEY, value |-> "7000.00"] >>
              ELSE << >>
        d2 == IF text.box3_4
              THEN d1 \o << [key |-> <<"s", "o", "c", "i", "a", "l", "_", "s", "e", "c", "u", "r", "i", "t", "y", "_", "w", "a", "g", "e", "s">>,
                             value |-> "58414.00"],
                            [key |-> <<"s", "o", "c", "i", "a", "l", "_", "s", "e", "c", "u", "r", "i", "t", "y", "_", "t", "a", "x", "_", "w", "i", "t", "h", "h", "e", "l", "d">>,
                             value |-> "3621.67"] >>
              ELSE d1
    IN  IF get(d2, WAGES_KEY) = None THEN None ELSE Some(d2)

\* What a request to an external service can end in.
ServiceOutcomes == {"ok", "http_error", "timeout", "connection", "malformed"}

\* FlyfieldExtractor._call_w2_endpoint: every exception is swallowed.
call_w2_endpoint(outcome, body) ==
    [raised |-> FALSE, value |-> IF outcome = "ok" THEN Some(body) ELSE None]

\* FlyfieldExtractor.extract_w2_from_file
extract_w2_from_file(outcome, body) ==
    LET result == call_w2_endpoint(outcome, body).value
    IN  IF result = None \/ ~result[1].success THEN None
        ELSE IF result[1].form_fields # << >>
             THEN normalize_form_fields(result[1].form_fields)
        ELSE IF ~result[1].page_text.blank THEN parse_w2_text(result[1].page_text)
        ELSE None

\* LLMExtractor.extract: the chat request, then json.loads of its content.
llm_extract(outcome, body) ==
    IF outcome = "ok" THEN [raised |-> FALSE, value |-> body]
    ELSE IF outcome = "malformed" THEN [raised |-> FALSE, value |-> << >>]
    ELSE [raised |-> TRUE, value |-> << >>]

\* LLMExtractor.extract_w2: extract is called before the try block.
llm_extract_w2(outcome, body) ==
    LET data == llm_extract(outcome, body)
    IN  IF data.raised THEN [raised |-> TRUE, value |-> None]
        ELSE IF data.value = << >> THEN [raised |-> FALSE, value |-> None]
        ELSE [raised |-> FALSE, value |-> Some(data.value)]

\* -------------------------------------------------- save and read of amounts
\* A Decimal of two fraction digits is its number of cents.  The INSERT of
\* save_w2_data, save_1099_int_data and save_1099_div_data binds str(x) for
\* a required amount and `str(x) if x else None` for an optional one; a
\* Decimal that equals zero is falsy.
bound_parameter(required, x) ==
    IF required THEN x
    ELSE IF x = None \/ x[1] = 0 THEN None ELSE x

\* The amount columns are declared DECIMAL(12,2): NUMERIC affinity turns the
\* text of a number into an INTEGER when it has no fraction and into a REAL
\* otherwise.  No converter is registered for DECIMAL.
stored_value(text) ==
    IF text = None THEN [type |-> "null", cents |-> 0]
    ELSE IF text[1] % 100 = 0 THEN [type |-> "integer", cents |-> text[1]]
    ELSE [type |-> "real", cents |-> text[1]]

\* Decimal(row[...]) for a required amount and
\* `Decimal(row[...]) if row[...] else None` for an optional one.  Decimal of
\* a float is the float's binary expansion: it has two fraction digits only
\* when the hundredths are a multiple of a quarter, and the models'
\* decimal_places=2 rejects it otherwise.
row_to_amount(required, column) ==
    IF ~required /\ (column.type = "null" \/ column.cents = 0)
    THEN [raised |-> FALSE, value |-> None]
    ELSE IF column.type = "real" /\ column.cents % 25 # 0
    THEN [raised |-> TRUE, value |-> None]
    ELSE [raised |-> FALSE, value |-> Some(column.cents)]

\* save_*_data followed by get_*_data for one amount field.
save_and_get(required, x) ==
    row_to_amount(required, stored_value(bound_parameter(required, x)))

\* ------------------------------------------------------- delete_document
\* The ids of documents come from AUTOINCREMENT and are never given twice: a
\* deleted row keeps its place in the sequence as a row no SELECT or UPDATE
\* of the handler matches.
DeletedRow ==
    [tax_year_id |-> 0, document_type |-> UNKNOWN, file_path |-> "",
     file_hash |-> "", processing_status |-> "deleted",
     error_message |-> None]

RowExists(docs, id) == id \in 1..Len(docs) /\ docs[id] # DeletedRow

\* DELETE FROM <table> WHERE document_id = ?
delete_records(rows, document_id) ==
    SelectSeq(rows, LAMBDA r : r.document_id # document_id)

\* DELETE FROM documents WHERE id = ?
delete_row(docs, id) ==
    IF RowExists(docs, id) THEN [docs EXCEPT ![id] = DeletedRow] ELSE docs

\* delete_document with a commit after the per-type records are deleted.
delete_document_records_committed(t) ==
    /\ call.fn = "delete_document" /\ call.pc = "records"
    /\ w2_data' = delete_records(w2_data, call.document_id)
    /\ form_1099_int' = delete_records(form_1099_int, call.document_id)
    /\ form_1099_div' = delete_records(form_1099_div, call.document_id)
    /\ call' = [call EXCEPT !.pc = "document",
                            !.records_deleted =
                               (Len(w2_data) - Len(w2_data'))
                               + (Len(form_1099_int) - Len(form_1099_int'))
                               + (Len(form_1099_div) - Len(form_1099_div')),
                            !.pending = <<documents, w2_data', form_1099_int',
                                          form_1099_div'>>]
    /\ UNCHANGED <<documents, run, runs, session>>

\* SQLiteHandler.delete_document is called by the thread of the command loop
\* between two entry points.  Its statements work on the connection's open
\* transaction (pending); the tables change for everyone at the commit.
delete_document_start(t) ==
    /\ run[t].pc = "idle"
    /\ call = NoCall
    /\ \E document_id \in 1..MaxDocs :
          call' = [fn |-> "delete_document", document_id |-> document_id,
                   pc |-> "records", pending |-> store, records_deleted |-> 0,
                   rowcount |-> 0, out |-> None]
    /\ UNCHANGED <<store, run, runs, session>>

\* lines 465-467
delete_document_records(t) ==
    /\ call.fn = "delete_document" /\ call.pc = "records"
    /\ LET w2 == delete_records(call.pending[2], call.document_id)
           int == delete_records(call.pending[3], call.document_id)
           div == delete_records(call.pending[4], call.document_id)
       IN  call' = [call EXCEPT !.pc = "document",
                                !.records_deleted =
                                   (Len(call.pending[2]) - Len(w2))
                                   + (Len(call.pending[3]) - Len(int))
                                   + (Len(call.pending[4]) - Len(div)),
                                !.pending = <<call.pending[1], w2, int, div>>]
    /\ UNCHANGED <<store, run, runs, session>>

\* line 470
delete_document_row(t) ==
    /\ call.fn = "delete_document" /\ call.pc = "document"
    /\ call' = [call EXCEPT !.pc = "commit",
                            !.rowcount =
                               IF RowExists(call.pending[1], call.document_id)
                               THEN 1 ELSE 0,
                            !.pending[1] = delete_row(@, call.document_id)]
    /\ UNCHANGED <<store, run, runs, session>>

\* lines 472-474: self.connection.commit(); return cursor.rowcount > 0
delete_document_commit(t) ==
    /\ call.fn = "delete_document" /\ call.pc = "commit"
    /\ documents' = call.pending[1]
    /\ w2_data' = call.pending[2]
    /\ form_1099_int' = call.pending[3]
    /\ form_1099_div' = call.pending[4]
    /\ call' = [call EXCEPT !.pc = "returned", !.out = Some(call.rowcount > 0)]
    /\ UNCHANGED <<run, runs, session>>

delete_document_return(t) ==
    /\ call.fn = "delete_document" /\ call.pc = "returned"
    /\ call' = NoCall
    /\ UNCHANGED <<store, run, runs, session>>

\* The entry points of the assistant session: they use every writing
\* operation of the handler (create_document, the update_document_*
\* operations and the three save_*_data operations).
AssistantStep(t) ==
    \/ auto_process_start(t)
    \/ process_new_file_start(t)
    \/ handle_process_file_start(t)
    \/ LoopNext(t)
    \/ CheckProcessed(t)
    \/ CreateDocument(t)
    \/ MarkProcessing(t)
    \/ ExtractText(t)
    \/ Classify(t)
    \/ ExtractAssistant(t)
    \/ FinalAssistant(t)
    \/ HandlerWatch(t)
    \/ HandlerAssistant(t)
    \/ Return(t)

StoreStep(t) ==
    \/ call = NoCall /\ AssistantStep(t)
    \/ delete_document_start(t)
    \/ delete_document_records(t)
    \/ delete_document_row(t)
    \/ delete_document_commit(t)
    \/ delete_document_return(t)

NextStore == \E t \in Sequential : StoreStep(t)

SpecStore == Init /\ [][NextStore]_vars

\* ------------------------------------------------------------ watcher mode
\* The assistant keeps one SQLiteHandler (self.db) for the main thread and
\* for the observer thread.  Its connection is opened by the first thread
\* that asks for it, with sqlite3's default check_same_thread: any other
\* thread that uses it gets sqlite3.ProgrammingError.
ThreadCheckOff(t) == TRUE

ThreadCheck(t) == session.connection \in {NoThread, t}

\* SQLiteHandler.connection: open the connection unless one is stored.
Connect(t) ==
    [session EXCEPT !.connection = IF @ = NoThread THEN t ELSE @]

\* The entry point's first statement in its try block is
\* db.get_or_create_tax_year(self.tax_year): it either raises in a thread
\* that does not own the connection, or the work on file f begins.
EnterPipeline(t, kind, f, s) ==
    LET r == [Idle EXCEPT !.kind = kind, !.pc = "hash",
                          !.year = tax_year, !.cur = f] IN
    IF ThreadCheck(t)
    THEN /\ runs < MaxRuns
         /\ Len(documents) < MaxDocs
         /\ run' = [run EXCEPT ![t] = r]
         /\ runs' = runs + 1
         /\ session' = [s EXCEPT !.connection = Connect(t).connection]
    ELSE /\ run' = [run EXCEPT ![t] = Raise(r, "connect")]
         /\ session' = s
         /\ UNCHANGED runs

\* DocumentFileHandler.on_created, called on the observer thread for one
\* FileCreatedEvent at a time: a path already reported is dropped, any other
\* is remembered and handed to _process_new_file.
on_created(t) ==
    /\ t = "observer"
    /\ run[t].pc = "idle"
    /\ \E path \in FileSet \ session.processed_paths :
          EnterPipeline(t, "watch", path,
                        [session EXCEPT !.processed_paths = @ \cup {path}])
    /\ UNCHANGED <<store, call>>

\* The process-file command typed at the prompt: _handle_process_file on
\* the main thread.
handle_process_file_command(t) ==
    /\ t = "main"
    /\ run[t].pc = "idle"
    /\ \E f \in FileSet : EnterPipeline(t, "manual", f, session)
    /\ UNCHANGED <<store, call>>

WatchStep(t) ==
    \/ on_created(t)
    \/ handle_process_file_command(t)
    \/ CheckProcessed(t)
    \/ CreateDocument(t)
    \/ MarkProcessing(t)
    \/ ExtractText(t)
    \/ Classify(t)
    \/ ExtractAssistant(t)
    \/ FinalAssistant(t)
    \/ HandlerWatch(t)
    \/ HandlerAssistant(t)
    \/ Return(t)

NextWatch == \E t \in Threads : WatchStep(t)

SpecWatch == Init /\ [][NextWatch]_vars

\* ------------------------------------------------- the functions on their own
\* One call of the classifier or of a validator: the request is drawn when
\* the behaviour begins and the call writes its result in out.
\* Texts handed to classify: how many of the W-2, 1099-INT and 1099-B
\* patterns and of the W-2 and 1099-INT keywords they match.
TextOf(w2_patterns, w2_keywords, int_patterns, int_keywords, b_patterns) ==
    WordsText(
        [t \in DOMAIN DOCUMENT_PATTERNS |->
            CASE t = W2 -> 1..w2_patterns
              [] t = FORM_1099_INT -> 1..int_patterns
              [] t = FORM_1099_B -> 1..b_patterns
              [] OTHER -> {}],
        [t \in DOMAIN DOCUMENT_PATTERNS |->
            CASE t = W2 -> 1..w2_keywords
              [] t = FORM_1099_INT -> 1..int_keywords
              [] OTHER -> {}])

ClassifyTexts ==
    {EmptyText, BlankText} \cup
    { TextOf(a, b, c, d, e) : a \in {0, 2, 3, 5, 7}, b \in {0, 3, 10},
                              c \in {0, 3}, d \in {0, 4, 8}, e \in {0, 2} }

ClassifyFileTexts ==
    {EmptyText, BlankText} \cup
    { TextOf(a, b, c, 0, 0) : a \in {0, 2, 5, 6}, b \in {0, 10}, c \in {0, 3} }

\* Two texts of which the second matches every pattern and keyword of
\* doc_type that the first matches.
ScorePairs ==
    { [doc_type |-> dt,
       text_a |-> WordsText([NoMatches EXCEPT ![dt] = pa], [NoMatches EXCEPT ![dt] = ka]),
       text_b |-> WordsText([NoMatches EXCEPT ![dt] = pb], [NoMatches EXCEPT ![dt] = kb])] :
      dt \in {W2, FORM_1099_DIV, FORM_1099_B},
      pa \in SUBSET (1..MaxMatched), ka \in SUBSET (1..MaxMatched),
      pb \in SUBSET (1..MaxMatched), kb \in SUBSET (1..MaxMatched) }

\* W2Data, Form1099INT and Form1099DIV objects handed to the validator.
W2Records ==
    [ document_id : {1},
      employer_ein : {None, Some(EinForm), Some(NineDigits)},
      employer_name : {"", "ACME"},
      employee_name : {"", "JO DOE"},
      employee_ssn : {None, Some(SsnForm), Some(NineDigits)},
      wages_tips_compensation : {0 - 100, 5841400},
      social_security_wages : {0, 5000000, 5841400, 20000000},
      social_security_tax_withheld :
          {0, 310100, 310101, 362067, 362100, 362267, 1045320},
      medicare_wages : {0, 5841400},
      medicare_tax_withheld : {0, 80000, 84700} ]

Int1099Records ==
    [ document_id : {1},
      payer_name : {"", "BANK"},
      interest_income : {0 - 1, 0, 12345, 100000001},
      tax_exempt_interest : {None, Some(0), Some(500)} ]

Div1099Records ==
    [ document_id : {1},
      payer_name : {"", "FUND"},
      total_ordinary_dividends : {0 - 1, 0, 4000, 10000},
      qualified_dividends : {None, Some(0), Some(4000), Some(5000)},
      total_capital_gain : {None, Some(20000)},
      foreign_tax_paid : {None, Some(0), Some(700)} ]

\* Forms handed to _normalize_form_fields.  The names are the aliases of the
\* table as they stand and names that need lower-casing and substitution;
\* there are one-field forms with every value and two-field forms with two
\* amounts.
FormFields ==
    LET FormFieldNames ==
            {field_mapping[k].pattern : k \in 1..Len(field_mapping)}
              \cup {<<"B", "o", "x", " ", "1", "6">>, <<"_", "W", "a", "g", "e", "s", "_">>, <<"n", "o", "t", "e", "s">>}
        FormFieldValues == {None, Some(""), Some(" "), Some("100.00"), Some("200.00")}
    IN  {<< [key |-> k, value |-> v] >> : k \in FormFieldNames, v \in FormFieldValues}
          \cup {<< [key |-> p[1], value |-> Some("100.00")],
                   [key |-> p[2], value |-> Some("200.00")] >> :
                  p \in {q \in FormFieldNames \X FormFieldNames : q[1] # q[2]}}

\* Bodies of the PDF service's answer to /extract/w2.
W2Responses ==
    [success : BOOLEAN,
     form_fields : {<< >>,
                    << [key |-> <<"b", "o", "x", "1">>, value |-> Some("58414.00")] >>,
                    << [key |-> <<"b", "o", "x", "2">>, value |-> Some("7000.00")] >>},
     page_text : PageTexts]

\* JSON objects of the LLM's answer.
LLMResponses ==
    {<< >>,
     << [key |-> WAGES_KEY, value |-> "58414.00"] >>,
     << [key |-> FEDERAL_KEY, value |-> "7000.00"] >>}

InitCalls ==
    /\ documents = << >>
    /\ w2_data = << >>
    /\ form_1099_int = << >>
    /\ form_1099_div = << >>
    /\ run = [t \in Threads |-> Idle]
    /\ runs = 0
    /\ session = NewSession
    /\ \/ call \in [fn : {"classify"}, text : ClassifyTexts, out : {None}]
       \/ call \in [fn : {"classify_file"}, file_path : FileNames,
                    text : {None} \cup {Some(x) : x \in ClassifyFileTexts},
                    out : {None}]
       \/ call \in [fn : {"calculate_score"}, pair : ScorePairs, out : {None}]
       \/ call \in [fn : {"build_w2"}, backend : {"llm", "flyfield"},
                    employer_ein : {None} \cup {Some(v) : v \in TaxIds},
                    employee_ssn : {None} \cup {Some(v) : v \in TaxIds},
                    out : {None}]
       \/ call \in [fn : {"store_decimal"}, backend : {"llm", "flyfield"},
                    val : NumericStrings, out : {None}]
       \/ call \in [fn : {"validate_w2"}, data : W2Records, out : {None}]
       \/ call \in [fn : {"validate_1099_int"}, data : Int1099Records, out : {None}]
       \/ call \in [fn : {"validate_1099_div"}, data : Div1099Records, out : {None}]
       \/ call \in [fn : {"save_and_get"},
                    record : {"W2Data", "Form1099INT", "Form1099DIV"},
                    required : {Some(0), Some(5841400), Some(362167), Some(1250)},
                    optional : {None, Some(0), Some(5841400), Some(362167),
                                Some(1250)},
                    out : {None}]
       \/ call \in [fn : {"_normalize_form_fields"}, fields : FormFields,
                    out : {None}]
       \/ call \in [fn : {"extract_w2_from_file"}, outcome : ServiceOutcomes,
                    body : W2Responses, out : {None}]
       \/ call \in [fn : {"_call_w2_endpoint", "extract", "extract_w2"},
                    outcome : ServiceOutcomes, body : LLMResponses, out : {None}]

Pending(fn) == call.fn = fn /\ call.out = None

CallClassify ==
    /\ Pending("classify")
    /\ call' = [call EXCEPT !.out = Some(classify(call.text))]
    /\ UNCHANGED <<store, run, runs, session>>

CallClassifyFile ==
    /\ Pending("classify_file")
    /\ call' = [call EXCEPT !.out = Some(classify_file(call.file_path, call.text))]
    /\ UNCHANGED <<store, run, runs, session>>

CallCalculateScore ==
    /\ Pending("calculate_score")
    /\ call' = [call EXCEPT !.out =
          Some([a |-> calculate_score(call.pair.text_a, call.pair.doc_type),
                b |-> calculate_score(call.pair.text_b, call.pair.doc_type)])]
    /\ UNCHANGED <<store, run, runs, session>>

CallBuildW2 ==
    /\ Pending("build_w2")
    /\ call' = [call EXCEPT !.out =
          Some(build_w2(call.backend, call.employer_ein, call.employee_ssn))]
    /\ UNCHANGED <<store, run, runs, session>>

CallStoreDecimal ==
    /\ Pending("store_decimal")
    /\ call' = [call EXCEPT !.out = Some(store_decimal(call.backend, call.val))]
    /\ UNCHANGED <<store, run, runs, session>>

CallValidateW2 ==
    /\ Pending("validate_w2")
    /\ call' = [call EXCEPT !.out = Some(validate_w2(call.data))]
    /\ UNCHANGED <<store, run, runs, session>>

CallValidate1099Int ==
    /\ Pending("validate_1099_int")
    /\ call' = [call EXCEPT !.out = Some(validate_1099_int(call.data))]
    /\ UNCHANGED <<store, run, runs, session>>

CallValidate1099Div ==
    /\ Pending("validate_1099_div")
    /\ call' = [call EXCEPT !.out = Some(validate_1099_div(call.data))]
    /\ UNCHANGED <<store, run, runs, session>>

CallNormalizeFormFields ==
    /\ Pending("_normalize_form_fields")
    /\ call' = [call EXCEPT !.out = Some(normalize_form_fields(call.fields))]
    /\ UNCHANGED <<store, run, runs, session>>

CallExtractW2FromFile ==
    /\ Pending("extract_w2_from_file")
    /\ call' = [call EXCEPT !.out =
          Some(extract_w2_from_file(call.outcome, call.body))]
    /\ UNCHANGED <<store, run, runs, session>>

CallW2Endpoint ==
    /\ Pending("_call_w2_endpoint")
    /\ call' = [call EXCEPT !.out = Some(call_w2_endpoint(call.outcome, call.body))]
    /\ UNCHANGED <<store, run, runs, session>>

CallLLMExtract ==
    /\ Pending("extract")
    /\ call' = [call EXCEPT !.out = Some(llm_extract(call.outcome, call.body))]
    /\ UNCHANGED <<store, run, runs, session>>

CallLLMExtractW2 ==
    /\ Pending("extract_w2")
    /\ call' = [call EXCEPT !.out = Some(llm_extract_w2(call.outcome, call.body))]
    /\ UNCHANGED <<store, run, runs, session>>

\* A record with one required and one optional amount is saved and read back
\* by its document_id.
CallSaveAndGet ==
    /\ Pending("save_and_get")
    /\ call' = [call EXCEPT !.out =
          Some([required |-> save_and_get(TRUE, call.required),
                optional |-> save_and_get(FALSE, call.optional)])]
    /\ UNCHANGED <<store, run, runs, session>>

NextCalls ==
    \/ CallSaveAndGet
    \/ CallNormalizeFormFields
    \/ CallExtractW2FromFile
    \/ CallW2Endpoint
    \/ CallLLMExtract
    \/ CallLLMExtractW2
    \/ CallBuildW2
    \/ CallClassify
    \/ CallClassifyFile
    \/ CallStoreDecimal
    \/ CallCalculateScore
    \/ CallValidateW2
    \/ CallValidate1099Int
    \/ CallValidate1099Div

SpecCalls == InitCalls /\ [][NextCalls]_vars

\* ================================================================= claims
DocIds == 1..Len(documents)

\* Number of per-type records stored for document d.
RecordCount(d) ==
      Cardinality({i \in 1..Len(w2_data) : w2_data[i].document_id = d})
    + Cardinality({i \in 1..Len(form_1099_int) : form_1099_int[i].document_id = d})
    + Cardinality({i \in 1..Len(form_1099_div) : form_1099_div[i].document_id = d})

SameKey(i, j) ==
    /\ documents[i].tax_year_id = documents[j].tax_year_id
    /\ documents[i].file_hash = documents[j].file_hash

Recorded(year, f) ==
    \E i \in DocIds :
        /\ documents[i].tax_year_id = year
        /\ documents[i].file_hash = get_file_hash(f)

\* Files the invocation of thread t has still to handle.
Remaining(t) ==
    {run[t].queue[i] : i \in 1..Len(run[t].queue)}
    \cup (IF run[t].cur = "" THEN {} ELSE {run[t].cur})

AtFileEnd(t) == run[t].pc \in {"loop", "done"} /\ run[t].cur # ""

\* ---- C1 ----------------------------------------------------------------
\* C1 (batch runs only): the store never holds two Document rows with the
\* same (tax_year_id, file_hash) nor two per-type records for one document,
\* and a batch run that finds every file it handles already recorded for its
\* year changes nothing in the store.
C1_OneRow ==
    /\ \A i, j \in DocIds : i # j => ~SameKey(i, j)
    /\ \A d \in DocIds : RecordCount(d) <= 1

C1_NoOp ==
    \A t \in Threads :
        ( /\ run[t].kind = "batch"
          /\ run[t].created = {}
          /\ \A f \in Remaining(t) : Recorded(run[t].year, f) )
        => UNCHANGED store

C1_DedupIdempotent == [](C1_OneRow) /\ [][C1_NoOp]_vars

\* A second batch run over a recorded W-2 file has finished: nothing raised,
\* nothing created, still one row and one record.
C1_Witness ==
    /\ runs = 2
    /\ run["main"].kind = "batch" /\ run["main"].pc = "done"
    /\ run["main"].created = {} /\ run["main"].raised = << >>
    /\ Len(documents) = 1 /\ Len(w2_data) = 1
    /\ documents[1].processing_status = VALIDATED

\* ---- C2 ----------------------------------------------------------------
\* C2: in every reachable state no two Document rows have the same
\* (tax_year_id, file_hash).
C2_UniqueHash == \A i, j \in DocIds : i # j => ~SameKey(i, j)

\* ---- C3 ----------------------------------------------------------------
\* C3: when a batch run ends in which exactly one exception was raised, by
\* document k during text or field extraction, k is in ERROR with that exception's
\* message, every other row the run created is VALIDATED, every file was
\* handled, and exactly one created row is in ERROR.
OnlyExtractionThrew(t) ==
    /\ run[t].kind = "batch"
    /\ run[t].pc = "done"
    /\ Len(run[t].raised) = 1
    /\ run[t].raised[1].stage \in {"ocr", "extract"}

C3_ErrorIsolation ==
    \A t \in Threads :
        OnlyExtractionThrew(t) =>
            LET k == run[t].raised[1] IN
            /\ run[t].queue = << >>
            /\ k.doc \in run[t].created
            /\ documents[k.doc].processing_status = ERROR
            /\ documents[k.doc].error_message = ExcMessage(k.file)
            /\ \A d \in run[t].created \ {k.doc} :
                  documents[d].processing_status = VALIDATED
            /\ Cardinality({d \in run[t].created :
                  documents[d].processing_status = ERROR}) = 1

\* Document k was the first of the batch and a later one was validated.
C3_Witness ==
    /\ OnlyExtractionThrew("main")
    /\ \E d \in run["main"].created :
          /\ d > run["main"].raised[1].doc
          /\ documents[d].processing_status = VALIDATED

\* ---- C4 ----------------------------------------------------------------
\* C4: when the handling of a file ends whose record got a hard error from
\* the validator, its document is in ERROR with the messages recorded.
C4_HardErrorGivesError ==
    \A t \in Threads :
        (AtFileEnd(t) /\ run[t].outcome = "invalid") =>
            /\ documents[run[t].doc].processing_status = ERROR
            /\ documents[run[t].doc].error_message # None

\* ---- C5 ----------------------------------------------------------------
\* C5: a W2 / 1099-INT / 1099-DIV document is EXTRACTED only with a saved
\* record, and when no backend returned the load-bearing field its handling
\* ends in ERROR with a message.
C5_NoDataGivesError ==
    /\ \A d \in DocIds :
          documents[d].processing_status = EXTRACTED => RecordCount(d) >= 1
    /\ \A t \in Threads :
          ( /\ AtFileEnd(t)
            /\ run[t].doc_type \in {W2, FORM_1099_INT, FORM_1099_DIV}
            /\ run[t].outcome = "no_data" ) =>
              /\ documents[run[t].doc].processing_status = ERROR
              /\ documents[run[t].doc].error_message # None

\* ---- C6 ----------------------------------------------------------------
\* C6: every persisted Form1099DIV record has
\* qualified_dividends <= total_ordinary_dividends.
C6_QualifiedWithinTotal ==
    \A i \in 1..Len(form_1099_div) :
        form_1099_div[i].qualified_dividends # None =>
            form_1099_div[i].qualified_dividends[1]
                <= form_1099_div[i].total_ordinary_dividends

\* ---- C7 ----------------------------------------------------------------
\* C7: every change of a row's status goes forward in the order PENDING,
\* PROCESSING, OCR_COMPLETE, EXTRACTED, VALIDATED, or goes to ERROR.
Rank(status) ==
    CASE status = PENDING -> 1
      [] status = PROCESSING -> 2
      [] status = OCR_COMPLETE -> 3
      [] status = EXTRACTED -> 4
      [] status = VALIDATED -> 5
      [] OTHER -> 0

C7_Forward ==
    \A d \in DocIds :
        documents'[d].processing_status # documents[d].processing_status =>
            \/ documents'[d].processing_status = ERROR
            \/ /\ documents[d].processing_status # ERROR
               /\ Rank(documents'[d].processing_status)
                      > Rank(documents[d].processing_status)

C7_StatusMovesForward == [][C7_Forward]_vars

\* One row went through EXTRACTED to VALIDATED and another went to ERROR.
C7_Witness ==
    /\ \E d \in DocIds :
          documents[d].processing_status = VALIDATED /\ RecordCount(d) = 1
    /\ \E d \in DocIds : documents[d].processing_status = ERROR

\* ---- C8 ----------------------------------------------------------------
\* C8: once a row's status is VALIDATED or ERROR, no step of a run changes
\* its status or its error message.
C8_Terminal ==
    \A d \in DocIds :
        documents[d].processing_status \in {VALIDATED, ERROR} =>
            /\ documents'[d].processing_status = documents[d].processing_status
            /\ documents'[d].error_message = documents[d].error_message

C8_TerminalStatuses == [][C8_Terminal]_vars

\* ---- C9 ----------------------------------------------------------------
\* C9: a document has at most one per-type record, and every stored record
\* is one for which its validator returns is_valid = true.
C9_SavedOnceAfterValidation ==
    /\ \A d \in DocIds : RecordCount(d) <= 1
    /\ \A i \in 1..Len(w2_data) : validate_w2(w2_data[i]).is_valid
    /\ \A i \in 1..Len(form_1099_int) :
          validate_1099_int(form_1099_int[i]).is_valid
    /\ \A i \in 1..Len(form_1099_div) :
          validate_1099_div(form_1099_div[i]).is_valid

\* ---- C10 ---------------------------------------------------------------
\* C10: when the handling of a file ends in which an exception was raised
\* after the file's row was created, that row is in ERROR with the
\* exception's message.
RaisedAfterCreate(t) ==
    /\ AtFileEnd(t)
    /\ run[t].exc # None
    /\ run[t].raised[Len(run[t].raised)].doc # 0

C10_ExceptionGivesError ==
    \A t \in Threads :
        RaisedAfterCreate(t) =>
            LET d == run[t].raised[Len(run[t].raised)].doc IN
            /\ documents[d].processing_status = ERROR
            /\ documents[d].error_message = run[t].exc

\* ---- C11 ---------------------------------------------------------------
\* C11: from the moment a document is classified as a type other than W2,
\* 1099-INT and 1099-DIV it has no per-type record, it stays in
\* OCR_COMPLETE while the rest of its handling runs, and its handling ends
\* with the document in VALIDATED.
Extracted3 == {W2, FORM_1099_INT, FORM_1099_DIV}

C12_TypePersisted ==
    \A t \in Threads :
        ( /\ AtFileEnd(t)
          /\ run[t].doc_type # ""
          /\ documents[run[t].doc].processing_status \in {VALIDATED, ERROR} )
        => documents[run[t].doc].document_type = run[t].doc_type

\* ---- C13 ---------------------------------------------------------------
\* C13: with the watcher's callbacks on the observer thread and the
\* process-file command on the main thread, the two threads are never both
\* inside the pipeline, no two Document rows share (tax_year_id, file_hash),
\* and a notification or command for a file whose (tax year, hash) is
\* recorded changes nothing in the store.
ConnectFailed(t) ==
    /\ run[t].raised # << >>
    /\ run[t].raised[Len(run[t].raised)].stage = "connect"

InPipeline(t) == run[t].pc \notin {"idle", "done"} /\ ~ConnectFailed(t)

C13_OneAtATime ==
    /\ ~(InPipeline("main") /\ InPipeline("observer"))
    /\ \A i, j \in DocIds : SameKey(i, j) => i = j

C13_LateIsNoOp ==
    \A t \in Threads :
        ( /\ run'[t] # run[t]
          /\ run[t].cur # ""
          /\ run[t].created = {}
          /\ Recorded(run[t].year, run[t].cur) )
        => UNCHANGED store

Scores(text) ==
    {calculate_score(text, CandidateTypes[i]) : i \in 1..Len(CandidateTypes)}

MaxScore(text) == CHOOSE m \in Scores(text) : \A x \in Scores(text) : x <= m

Returned(fn) == call.fn = fn /\ call.out # None

C14_ThresholdBoundary ==
    (Returned("classify") /\ call.text.chars = "words") =>
        LET m == MaxScore(call.text)
            out == call.out[1] IN
        /\ 10 * m = 3 * SCORE_ONE =>
              /\ out.confidence = m
              /\ out.document_type \in DOMAIN DOCUMENT_PATTERNS
              /\ calculate_score(call.text, out.document_type) = m
        /\ 10 * m < 3 * SCORE_ONE =>
              out = [document_type |-> OTHER_TYPE, confidence |-> m]

\* Three of the seven W-2 patterns and all eight 1099-INT keywords: both
\* types score exactly 0.3 and W2 is returned with 0.3.
C14_Witness ==
    /\ Returned("classify")
    /\ call.text = TextOf(3, 0, 0, 8, 0)
    /\ 10 * MaxScore(call.text) = 3 * SCORE_ONE
    /\ call.out[1].document_type = W2

\* ---- C15 ---------------------------------------------------------------
\* C15: when text B matches every pattern and every keyword of a type that
\* text A matches, the type's score for B is not lower than for A.
C15_Monotone ==
    Returned("calculate_score") =>
        LET dt == call.pair.doc_type
            a == call.pair.text_a
            b == call.pair.text_b IN
        \/ ~(a.patterns[dt] \subseteq b.patterns[dt])
        \/ ~(a.keywords[dt] \subseteq b.keywords[dt])
        \/ call.out[1].a <= call.out[1].b

\* B adds a pattern and a keyword to what A matches and scores higher.
C15_Witness ==
    /\ Returned("calculate_score")
    /\ call.pair.doc_type = W2
    /\ call.pair.text_a.patterns[W2] = {1}
    /\ call.pair.text_b.patterns[W2] = {1, 2}
    /\ call.pair.text_a.keywords[W2] = {1}
    /\ call.pair.text_b.keywords[W2] = {1, 3}
    /\ call.out[1].a < call.out[1].b

\* ---- C16 ---------------------------------------------------------------
\* C16: classify returns (UNKNOWN, 0) for the empty text and for a text of
\* whitespace only.
C16_BlankIsUnknown ==
    (Returned("classify") /\ call.text.chars \in {"empty", "blank"}) =>
        call.out[1] = [document_type |-> UNKNOWN, confidence |-> 0]

C16_Witness ==
    /\ Returned("classify")
    /\ call.text = BlankText
    /\ call.out[1].document_type = UNKNOWN

\* ---- C17 ---------------------------------------------------------------
\* C17: with a non-empty text, classify_file returns (file-name type, 0.8)
\* when the file name maps to a type and the text confidence is below 0.5,
\* and the text classification unchanged otherwise (so always when the text
\* confidence is 0.5 or more); with no text or the empty text it returns the
\* file-name type.
C17_FileNameOverride ==
    Returned("classify_file") =>
        LET filename_type == classify_by_filename(call.file_path)
            out == call.out[1] IN
        IF call.text # None /\ call.text[1] # EmptyText
        THEN LET r == classify(call.text[1]) IN
             /\ (filename_type # UNKNOWN /\ 2 * r.confidence < SCORE_ONE) =>
                   out = [document_type |-> filename_type,
                          confidence |-> (8 * SCORE_ONE) \div 10]
             /\ (filename_type = UNKNOWN \/ 2 * r.confidence >= SCORE_ONE) =>
                   out = r
        ELSE /\ out.document_type = filename_type
             /\ filename_type = UNKNOWN => out.confidence = 0

\* "w2.pdf" with a text that scores 0.35 for 1099-INT: the file name wins.
C17_Witness ==
    /\ Returned("classify_file")
    /\ call.file_path = "w2.pdf"
    /\ call.text = Some(TextOf(0, 0, 3, 0, 0))
    /\ classify(call.text[1]).document_type = FORM_1099_INT
    /\ call.out[1] = [document_type |-> W2, confidence |-> 6720]

\* ---- C18 ---------------------------------------------------------------
\* C18: for the three validators is_valid is true exactly when no returned
\* message lacks the WARNING: prefix; every warning is returned with the
\* prefix, and a result with warnings and no error is valid.
Prefixed(m) == m[1] = "WARNING:"

C18_ValidIffNoPlainMessage ==
    \A fn \in {"validate_w2", "validate_1099_int", "validate_1099_div"} :
        Returned(fn) =>
            LET out == call.out[1] IN
            /\ out.is_valid <=>
                  \A i \in 1..Len(out.messages) : Prefixed(out.messages[i])
            /\ \A i \in 1..Len(out.warnings) :
                  \E j \in 1..Len(out.messages) :
                      out.messages[j] = <<"WARNING:", out.warnings[i]>>
            /\ Cardinality({j \in 1..Len(out.messages) : Prefixed(out.messages[j])})
                  = Len(out.warnings)
            /\ out.errors = << >> => out.is_valid

\* A 1099-INT with tax-exempt interest: one warning, no error, valid.
C18_Witness ==
    /\ Returned("validate_1099_int")
    /\ call.data.tax_exempt_interest = Some(500)
    /\ call.out[1].is_valid
    /\ Len(call.out[1].warnings) = 1
    /\ Prefixed(call.out[1].messages[1])

\* ---- C19 ---------------------------------------------------------------
\* C19: validate_w2 returns the Social Security warning exactly when the
\* Social Security tax withheld differs by more than $1.00 from 6.2% of
\* min(Social Security wages, wage base), and the warning leaves is_valid
\* as the errors decide it.
SSDeviationOver(data) ==
    Abs(Min(data.social_security_wages, SS_WAGE_LIMIT_2024) * 62
        - data.social_security_tax_withheld * 1000) > 100 * 1000

HasSSWarning(out) ==
    \E i \in 1..Len(out.messages) :
        out.messages[i] = <<"WARNING:", "Social Security tax doesn't match expected">>

C19_SSWarningExactly ==
    Returned("validate_w2") =>
        /\ HasSSWarning(call.out[1]) <=> SSDeviationOver(call.data)
        /\ call.out[1].is_valid <=> call.out[1].errors = << >>

\* ---- C20 ---------------------------------------------------------------
\* C20: validate_1099_div returns is_valid = false and an error for every
\* record with non-negative total_ordinary_dividends and qualified_dividends
\* whose qualified_dividends is the greater.
C20_QualifiedOverTotalIsError ==
    Returned("validate_1099_div") =>
        LET total == call.data.total_ordinary_dividends
            qualified == call.data.qualified_dividends IN
        \/ qualified = None
        \/ total < 0
        \/ qualified[1] <= total
        \/ ~call.out[1].is_valid /\ call.out[1].errors # << >>

\* ---- C21 ---------------------------------------------------------------
\* C21: building a W-2 record never raises and always gives a record; an
\* employer_ein or employee_ssn input with exactly nine digits is stored as
\* DD-DDDDDDD or DDD-DD-DDDD, and any other input is stored as null.
DigitCount(v) == IF v = None THEN 0 ELSE Len(DigitsOf(v[1]))

C21_IdNormalised ==
    Returned("build_w2") =>
        LET out == call.out[1]
            e == DigitsOf(call.employer_ein[1])
            n == DigitsOf(call.employee_ssn[1]) IN
        /\ ~out.raised
        /\ out.record # None
        /\ out.record[1].employer_ein =
              IF DigitCount(call.employer_ein) = 9
              THEN Some(SubSeq(e, 1, 2) \o <<"-">> \o SubSeq(e, 3, 9))
              ELSE None
        /\ out.record[1].employee_ssn =
              IF DigitCount(call.employee_ssn) = 9
              THEN Some(SubSeq(n, 1, 3) \o <<"-">> \o SubSeq(n, 4, 5)
                        \o <<"-">> \o SubSeq(n, 6, 9))
              ELSE None

\* ---- C22 ---------------------------------------------------------------
\* C22: for every backend, storing an extracted numeric string never raises
\* and never costs the record; a number is stored with two fraction digits,
\* within half a cent of what was extracted and the same with and without
\* grouping commas; a malformed string is stored as null.
C22_DecimalNormalised ==
    Returned("store_decimal") =>
        LET out == call.out[1] IN
        /\ ~out.raised
        /\ out.record
        /\ call.val.malformed => out.stored = None
        /\ ~call.val.malformed =>
              /\ out.stored # None
              /\ out.stored[1] % 10 = 0
              /\ Abs(out.stored[1] - call.val.mills) <= 5
              /\ out = store_decimal(call.backend, strip_commas(call.val))

\* ---- C23 ---------------------------------------------------------------
\* C23: no W2Data record is stored for an extraction result in which the
\* employer name, the employee name, the wages or one of the withholding
\* boxes is missing or blank, and the document of such a result ends in
\* ERROR.
W2_REQUIRED_AMOUNTS ==
    {"wages_tips_compensation", "federal_income_tax_withheld",
     "social_security_wages", "social_security_tax_withheld",
     "medicare_wages", "medicare_tax_withheld"}

Incomplete(extracted) ==
    \/ extracted.employer_name = ""
    \/ extracted.employee_name = ""
    \/ \E k \in W2_REQUIRED_AMOUNTS : extracted[k] = None

C23_RequiredFieldsEnforced ==
    \A i \in 1..Len(w2_data) : ~Incomplete(w2_data[i].raw_data)

\* ---------------------------------------------------------------- C24
RecordsOf(tables, document_id) ==
    << SelectSeq(tables[2], LAMBDA r : r.document_id = document_id),
       SelectSeq(tables[3], LAMBDA r : r.document_id = document_id),
       SelectSeq(tables[4], LAMBDA r : r.document_id = document_id) >>

NoRecords == << << >>, << >>, << >> >>

LostRecord(before, after) ==
    \E k \in 1..3 : Len(after[k]) < Len(before[k])

\* C24: delete_document(id) removes the Document row and every per-type
\* record with that document_id in one commit, so that no committed state
\* has the one removed without the other; it returns TRUE exactly when the
\* Document row existed; every other row and record is left as it was; and
\* no other step of the store or of the pipeline removes a Document row or
\* a per-type record.
C24_DeleteAtomicAndFramed ==
    [][LET committing == /\ call.fn = "delete_document"
                         /\ call.pc = "commit"
                         /\ call'.pc = "returned"
       IN  /\ \A e \in 1..Len(documents) :
                LET target == committing /\ e = call.document_id
                    before == RecordsOf(store, e)
                    after == RecordsOf(store', e)
                    removed == \/ RowExists(documents, e) /\ ~RowExists(documents', e)
                               \/ LostRecord(before, after)
                IN  /\ removed => target
                    /\ target /\ RowExists(documents, e) =>
                          ~RowExists(documents', e) /\ after = NoRecords
                    /\ committing /\ ~target =>
                          documents'[e] = documents[e] /\ after = before
           /\ committing =>
                 call'.out = Some(RowExists(documents, call.document_id))
      ]_vars

C24_Witness ==
    /\ call.fn = "delete_document"
    /\ call.pc = "returned"
    /\ call.out = Some(TRUE)
    /\ call.records_deleted > 0
    /\ ~RowExists(documents, call.document_id)
    /\ \E e \in 1..Len(documents) :
          RowExists(documents, e) /\ RecordsOf(store, e) # NoRecords

\* ---------------------------------------------------------------- C25
HasWages(result) == result # None /\ get(result[1], WAGES_KEY) # None

\* C25: the backends are tried in priority order and the chain stops at the
\* first result that holds the load-bearing field: when the form fields of
\* the service's answer hold no wages and its page text holds the wages
\* line, extract_w2_from_file goes on to the page text and returns wages.
C25_ChainReachesNextBackend ==
    \/ ~(call.fn = "extract_w2_from_file" /\ call.out # None)
    \/ ~(call.outcome = "ok" /\ call.body.success)
    \/ ~HasWages(parse_w2_text(call.body.page_text)) \/ call.body.page_text.blank
    \/ HasWages(call.out[1])

\* ---------------------------------------------------------------- C26
\* C26: a timeout, a connection failure or a malformed response of an
\* external service never propagates out of a backend call; the call
\* returns no data.
C26_ServiceFailureContained ==
    \/ ~(call.fn \in {"_call_w2_endpoint", "extract", "extract_w2"} /\ call.out # None)
    \/ call.outcome \notin {"timeout", "connection", "malformed"}
    \/ ~call.out[1].raised /\ call.out[1].value \in {None, << >>}

\* ---------------------------------------------------------------- C27
IsAlias(key) == \E k \in 1..Len(field_mapping) : field_mapping[k].pattern = key

TableTarget(key) ==
    field_mapping[CHOOSE k \in 1..Len(field_mapping) :
                     field_mapping[k].pattern = key].target

\* C27: _normalize_form_fields stores the value of every field named by an
\* alias of the table under the canonical key the table assigns to that
\* alias, so that fields of two distinct canonical keys never overwrite
\* each other.
C27_AliasToCanonical ==
    \/ ~(call.fn = "_normalize_form_fields" /\ call.out # None)
    \/ \A i \in 1..Len(call.fields) :
          LET f == call.fields[i]
              others == {j \in 1..Len(call.fields) : j # i /\ IsAlias(call.fields[j].key)}
          IN  \/ ~IsAlias(f.key)
              \/ f.value = None \/ strip_value(f.value[1]) = ""
              \/ \E j \in others : TableTarget(call.fields[j].key) = TableTarget(f.key)
              \/ /\ call.out[1] # None
                 /\ get(call.out[1][1], TableTarget(f.key)) = Some(strip_value(f.value[1]))

\* ---------------------------------------------------------------- C28
\* C28: an exception raised while a file of a batch is handled, the hashing
\* and the dedup lookup before its row exists included, never changes the
\* status or the error message of the Document row of another file: the
\* handler's step changes only rows of the file being handled.
C28_Handler ==
    \A t \in Threads :
        run[t].pc = "except" =>
            \A d \in DocIds :
                \/ documents'[d].file_path = run[t].cur
                \/ /\ documents'[d].processing_status = documents[d].processing_status
                   /\ documents'[d].error_message = documents[d].error_message

C28_ExceptionIsLocal == [][C28_Handler]_vars

\* ---------------------------------------------------------------- C29
FinishedRun(t) ==
    /\ run[t].queue = << >>
    /\ \A d \in run[t].created :
          documents[d].processing_status \in {VALIDATED, ERROR}

\* The files of the list are taken from its head, one per iteration.
TakesEachOnce(t) ==
    /\ (run'[t].cur # run[t].cur /\ run'[t].cur # "") =>
          /\ run[t].queue # << >>
          /\ run'[t].cur = Head(run[t].queue)
          /\ run'[t].queue = Tail(run[t].queue)
    /\ run'[t].queue # run[t].queue =>
          \/ run[t].pc = "idle"
          \/ /\ run[t].queue # << >>
             /\ run'[t].queue = Tail(run[t].queue)
             /\ run'[t].cur = Head(run[t].queue)

\* C29: a run of the batch command terminates after it has handled each
\* candidate file exactly once, and when it terminates every Document row
\* it created is in VALIDATED or ERROR.
C29_BatchTerminates ==
    /\ (run["main"].pc # "idle")
          ~> (run["main"].pc = "done" /\ FinishedRun("main"))
    /\ [](run["main"].pc = "done" => FinishedRun("main"))
    /\ [][TakesEachOnce("main")]_vars

C29_Witness ==
    /\ run["main"].kind = "batch"
    /\ run["main"].pc = "done"
    /\ run["main"].raised # << >>
    /\ \E d, e \in run["main"].created :
          /\ documents[d].processing_status = VALIDATED
          /\ documents[e].processing_status = ERROR

\* ---------------------------------------------------------------- C30
\* C30: a W2Data, Form1099INT or Form1099DIV saved and read back by its
\* document_id has the same value in every amount field: an optional field
\* saved as 0.00 reads back 0.00, one saved as null reads back null.
C30_RoundTrip ==
    \/ ~(call.fn = "save_and_get" /\ call.out # None)
    \/ /\ ~call.out[1].required.raised
       /\ ~call.out[1].optional.raised
       /\ call.out[1].required.value = call.required
       /\ call.out[1].optional.value = call.optional

====
